---- MODULE Spec2Model ----
(***************************************************************************)
(* Recruiting-pipeline dashboard (src/app.py, src/utils.py): the metrics   *)
(* aggregation engine as a state machine.                                  *)
(*                                                                         *)
(* The state is the uploaded table `df` (the DataFrame main() holds), the  *)
(* filter selection of the sidebar, and the outcome of the last aggregator *)
(* call.  TLA+ strings are ASCII, so the Japanese column names and the     *)
(* sentinel of the source are written in ASCII:                            *)
(*   ALL        = "全て"                                                   *)
(*   cand       = 求職者：求職者ID      company = 企業：企業名             *)
(*   sub        = 進捗：書類提出日      intv    = 進捗：面接日             *)
(*   off        = 進捗：内定日          cnt     = 進捗：面接回数           *)
(*   flag       = 進捗：最終面接フラグ  status  = 進捗：ステータス         *)
(*   approved   = 進捗：応募OK日        scout   = スカウト担当者           *)
(*   sub_parsed = 書類提出日_parsed     int_parsed = 面接日_parsed         *)
(*   off_parsed = 内定日_parsed                                            *)
(***************************************************************************)
EXTENDS Integers, Sequences, FiniteSets, TLC

VARIABLES
    df,                  \* the caller's table: [rows, columns, parsed]
    df0,                 \* the table as it was uploaded (never assigned again)
    selected_companies,  \* sidebar selection / argument selected_companies
    selected_months,     \* sidebar selection / argument selected_months
    op,                  \* the aggregator that ran last ("idle" before any)
    out,                 \* what that call returned (or that it raised)
    prev_out,            \* what the call before it returned, when it was the
                         \* same aggregator on the same arguments
    format_inference,    \* the pandas build: TRUE when to_datetime infers one
                         \* format per column (pandas >= 2.0)
    chat_history         \* st.session_state.chat_history: whether the key
                         \* exists, and the list of entries

vars == <<df, df0, selected_companies, selected_months, op, out, prev_out,
          format_inference, chat_history>>

\* the session before any question was saved: `'chat_history' not in
\* st.session_state`
NoHistory == [exists |-> FALSE, items |-> <<>>]

(***************************************************************************)
(* Bounds                                                                  *)
(***************************************************************************)
MaxRows == 2

(***************************************************************************)
(* Cells                                                                   *)
(***************************************************************************)
\* A raw date cell as read_csv delivers it: NaN, or a string that is in the
\* strict format '%Y-%m-%d %H:%M:%S', in another parseable format
\* (e.g. '2024/02/10'), the empty string, or unparseable text.
NaN == [k |-> "nan", y |-> 0, m |-> 0, d |-> 0]

Empty == [k |-> "empty", y |-> 0, m |-> 0, d |-> 0]

Bad == [k |-> "bad", y |-> 0, m |-> 0, d |-> 0]

Strict(y, m, d) == [k |-> "strict", y |-> y, m |-> m, d |-> d]

General(y, m, d) == [k |-> "general", y |-> y, m |-> m, d |-> d]

\* A parsed date: a Timestamp, or NaT / None.
NaT == [y |-> 0, m |-> 0, d |-> 0]

Timestamp(y, m, d) == [y |-> y, m |-> m, d |-> d]

notna(t) == t # NaT

\* A numeric cell (interview count, final-interview flag): NaN or a number.
NumNaN == [isna |-> TRUE, v |-> 0]

Num(n) == [isna |-> FALSE, v |-> n]

\* A text cell that is NaN (candidate id, status, scout name).
NoText == "NaN"

\* The sentinel of both filters.
ALL == "ALL"

(***************************************************************************)
(* Sequence helpers                                                        *)
(***************************************************************************)
Range(s) == {s[i] : i \in 1..Len(s)}

\* the subsequence of s at the positions of mask that are TRUE (df[mask])
Keep(s, mask) ==
    LET kept == {i \in 1..Len(s) : mask[i]}
    IN  [k \in 1..Cardinality(kept) |->
            s[CHOOSE i \in kept : Cardinality({j \in kept : j < i}) = k - 1]]

\* Series.unique(): the distinct values in order of first appearance
unique(s) ==
    Keep(s, [i \in 1..Len(s) |-> \A j \in 1..(i - 1) : s[j] # s[i]])

\* Series.count() in the place of nunique(): the non-NaN values, repeats
\* included
nunique_counting_repeats(s) == Cardinality({i \in 1..Len(s) : s[i] # NoText})

\* Series.nunique(): the number of distinct non-NaN values
nunique(s) == Cardinality(Range(s) \ {NoText})

\* the number of positions of s that satisfy the mask
Count(mask) == Cardinality({i \in 1..Len(mask) : mask[i]})

(***************************************************************************)
(* Date parsing                                                            *)
(***************************************************************************)
\* app.py parse_date: None for NaN and '', the strict format first, general
\* parsing second, None when both raise.
parse_date(date_str) ==
    IF date_str.k \in {"nan", "empty"} THEN NaT
    ELSE IF date_str.k = "strict"
         THEN Timestamp(date_str.y, date_str.m, date_str.d)
    ELSE IF date_str.k = "general"
         THEN Timestamp(date_str.y, date_str.m, date_str.d)
    ELSE NaT

\* Series.apply(parse_date)
apply_parse_date(col) == [i \in 1..Len(col) |-> parse_date(col[i])]

\* The dtype of Series.apply(parse_date): datetime64 as soon as one value is
\* a Timestamp, object when every value is None.  The .dt accessor exists
\* for datetime64 only.
is_datetimelike(parsed_col) == \E i \in 1..Len(parsed_col) : notna(parsed_col[i])

\* the kind of the first non-null string of a column ("none" if there is none)
first_non_null(col) ==
    LET nn == {i \in 1..Len(col) : col[i].k # "nan"}
    IN  IF nn = {} THEN "none"
        ELSE col[CHOOSE i \in nn : \A j \in nn : i <= j].k

\* pd.to_datetime(column, errors='coerce').  With format inference the
\* format is guessed from the first non-null value and every value that does
\* not match it becomes NaT; when no format can be guessed (unparseable first
\* value), and in builds without inference, each value is parsed on its own.
to_datetime_coerce(col, infer) ==
    LET first == first_non_null(col)
    IN  [i \in 1..Len(col) |->
            IF col[i].k \notin {"strict", "general"} THEN NaT
            ELSE IF infer /\ first \in {"strict", "general"} /\ col[i].k # first
                 THEN NaT
            ELSE Timestamp(col[i].y, col[i].m, col[i].d)]

(***************************************************************************)
(* Month tokens                                                            *)
(***************************************************************************)
\* A month token 'YYYY-M': the year and the digits after the dash.
MonthToken(y, digits) == [all |-> FALSE, y |-> y, digits |-> digits]

\* the sentinel in a month selection
AllMonths == [all |-> TRUE, y |-> 0, digits |-> <<>>]

\* f"{date.year}-{date.month:02d}"
format_month(t) == MonthToken(t.y, <<t.m \div 10, t.m % 10>>)

\* int() of the digits after the dash
int_of(digits) ==
    IF Len(digits) = 1 THEN digits[1] ELSE digits[1] * 10 + digits[2]

\* month.split('-') and the two int() calls
split_month(month) == [year |-> month.y, month_num |-> int_of(month.digits)]

(***************************************************************************)
(* Selections                                                              *)
(***************************************************************************)
\* An argument that was not passed (None), or a list.
None == [given |-> FALSE, items |-> <<>>]

List(items) == [given |-> TRUE, items |-> items]

\* the company test honouring the sentinel at the head of the list only
company_filter_active_head_only(sel) ==
    sel.given /\ sel.items # <<>> /\ Head(sel.items) # "ALL"

\* `if selected_companies and "全て" not in selected_companies`
company_filter_active(sel) ==
    sel.given /\ sel.items # <<>> /\ ALL \notin Range(sel.items)

\* `if selected_months and "全て" not in selected_months`
month_filter_active(sel) ==
    sel.given /\ sel.items # <<>> /\ AllMonths \notin Range(sel.items)

\* (col.dt.year == year) & (col.dt.month == month_num)
in_month(t, month) ==
    LET ym == split_month(month)
    IN  notna(t) /\ t.y = ym.year /\ t.m = ym.month_num

\* the mask the month loop builds for one row with its three parsed dates
month_mask(r, months) ==
    \E i \in 1..Len(months) :
        \/ in_month(r.sub_parsed, months[i])
        \/ in_month(r.int_parsed, months[i])
        \/ in_month(r.off_parsed, months[i])

\* df[df['企業：企業名'].isin(selected_companies)]
company_mask(r, companies) == r.company \in Range(companies)

(***************************************************************************)
(* Tables                                                                  *)
(***************************************************************************)
\* A table is [rows, columns, parsed]: the raw rows, the names of the columns
\* it has, and the three *_parsed columns (one record per row) once some call
\* has written them into it; <<>> while the table has no such columns.  A
\* column is named after the field of the rows that holds its cells.
Table(rows, columns) == [rows |-> rows, columns |-> columns, parsed |-> <<>>]

\* the columns validate_data requires, in its order: 求職者：求職者ID,
\* 企業：企業名, 進捗：書類提出日, 進捗：面接日, 進捗：面接回数,
\* 進捗：最終面接フラグ, 進捗：内定日, 進捗：ステータス
required_columns ==
    <<"cand", "company", "sub", "intv", "cnt", "flag", "off", "status">>

\* a table with every required column and the optional columns `optional`
Uploaded(rows, optional) ==
    Table(rows, {required_columns[i] : i \in 1..Len(required_columns)} \cup optional)

empty(t) == t.rows = <<>>

has_parsed_columns(t) == t.parsed # <<>>

Col(rows, f) == [i \in 1..Len(rows) |-> rows[i][f]]

\* the rows of a table together with their parsed dates
with_parsed(rows, parsed) == [i \in 1..Len(rows) |-> rows[i] @@ parsed[i]]

\* df['書類提出日_parsed'] = df['進捗：書類提出日'].apply(parse_date), etc.
parsed_by_parse_date(rows) ==
    LET s == apply_parse_date(Col(rows, "sub"))
        v == apply_parse_date(Col(rows, "intv"))
        o == apply_parse_date(Col(rows, "off"))
    IN  [i \in 1..Len(rows) |->
            [sub_parsed |-> s[i], int_parsed |-> v[i], off_parsed |-> o[i]]]

\* df['書類提出日_parsed'] = pd.to_datetime(df['進捗：書類提出日'],
\* errors='coerce'), etc.
parsed_by_to_datetime(rows, infer) ==
    LET s == to_datetime_coerce(Col(rows, "sub"), infer)
        v == to_datetime_coerce(Col(rows, "intv"), infer)
        o == to_datetime_coerce(Col(rows, "off"), infer)
    IN  [i \in 1..Len(rows) |->
            [sub_parsed |-> s[i], int_parsed |-> v[i], off_parsed |-> o[i]]]

\* the three .dt accesses of the month loop succeed
dt_accessible(parsed) ==
    /\ is_datetimelike(Col(parsed, "sub_parsed"))
    /\ is_datetimelike(Col(parsed, "int_parsed"))
    /\ is_datetimelike(Col(parsed, "off_parsed"))

\* the two filters with the month mask taken on the unfiltered table, so that
\* an active month filter undoes the company filter
filter_rows_month_on_whole(w, companies, months) ==
    IF month_filter_active(months)
    THEN Keep(w, [i \in 1..Len(w) |-> month_mask(w[i], months.items)])
    ELSE IF company_filter_active(companies)
    THEN Keep(w, [i \in 1..Len(w) |-> company_mask(w[i], companies.items)])
    ELSE w

\* the rows (with their parsed dates) that the two filters keep, the company
\* filter first and the month filter second
filter_rows(w, companies, months) ==
    LET c == IF company_filter_active(companies)
             THEN Keep(w, [i \in 1..Len(w) |-> company_mask(w[i], companies.items)])
             ELSE w
    IN  IF month_filter_active(months)
        THEN Keep(c, [i \in 1..Len(c) |-> month_mask(c[i], months.items)])
        ELSE c

raw_fields == {"cand", "company", "sub", "intv", "off", "cnt", "flag",
               "status", "approved", "scout", "meeting", "ca", "job"}

parsed_fields == {"sub_parsed", "int_parsed", "off_parsed"}

restrict(r, fields) == [f \in fields |-> r[f]]

\* utils.py apply_filters: an empty table is returned as it is; otherwise a
\* copy gets the parsed columns and is filtered.  The caller's table is not
\* touched.
apply_filters(t, companies, months, infer) ==
    IF empty(t) THEN t
    ELSE LET w == with_parsed(t.rows, parsed_by_to_datetime(t.rows, infer))
             kept == filter_rows(w, companies, months)
         IN  [rows    |-> [i \in 1..Len(kept) |-> restrict(kept[i], raw_fields)],
              columns |-> t.columns,
              parsed  |-> [i \in 1..Len(kept) |-> restrict(kept[i], parsed_fields)]]

\* get_available_months reading the submission column alone
get_available_months_of_submissions(t) ==
    IF empty(t) THEN {}
    ELSE LET p == parsed_by_parse_date(t.rows)
         IN  {format_month(p[i].sub_parsed) :
                 i \in {x \in 1..Len(p) : notna(p[x].sub_parsed)}}

\* app.py get_available_months: the 'YYYY-MM' tokens of every date parse_date
\* accepts, in descending order.  (The result is used as a set of options.)
get_available_months(t) ==
    IF empty(t) THEN {}
    ELSE LET p == parsed_by_parse_date(t.rows)
         IN  {format_month(p[i][f]) :
                 <<i, f>> \in {x \in (1..Len(p)) \X parsed_fields : notna(p[x[1]][x[2]])}}

(***************************************************************************)
(* Numbers                                                                 *)
(***************************************************************************)
\* A rate is the exact fraction num/den.  den = 0 stands for what a division
\* by zero gives (inf or nan for numpy integers, ZeroDivisionError for Python
\* ones): an undefined rate.
Zero == [num |-> 0, den |-> 1]

\* n / d * 100, with no guard
percent(n, d) == [num |-> n * 100, den |-> d]

\* the rate with its guard left out
rate_unguarded(n, d) == percent(n, d)

\* `(n / d * 100) if d > 0 else 0.0`
rate(n, d) == IF d > 0 THEN percent(n, d) ELSE Zero

defined(r) == r.den > 0

\* date.toordinal(): the day number of a Timestamp
is_leap(y) == (y % 4 = 0 /\ y % 100 # 0) \/ y % 400 = 0

days_before_month(y, m) ==
    LET len == <<31, IF is_leap(y) THEN 29 ELSE 28, 31, 30, 31, 30,
                 31, 31, 30, 31, 30, 31>>
        F[k \in 0..12] == IF k = 0 THEN 0 ELSE F[k - 1] + len[k]
    IN  F[m - 1]

toordinal(t) ==
    LET y1 == t.y - 1
    IN  y1 * 365 + (y1 \div 4) - (y1 \div 100) + (y1 \div 400)
        + days_before_month(t.y, t.m) + t.d

\* (a - b).dt.days
days_between(a, b) == toordinal(a) - toordinal(b)

RECURSIVE Sum(_)
Sum(s) == IF s = <<>> THEN 0 ELSE Head(s) + Sum(Tail(s))

\* int(x / n) for n > 0: Python's int() truncates towards zero
int_trunc(x, n) == IF x >= 0 THEN x \div n ELSE -((-x) \div n)

(***************************************************************************)
(* calculate_metrics                                                       *)
(***************************************************************************)
\* the mean taken over every offered row, the rows without a submission date
\* counting as 0 days
avg_cycle_time_over_offered(company_data) ==
    LET offered == Keep(company_data,
                        [i \in 1..Len(company_data) |->
                            notna(company_data[i].off_parsed)])
        days    == [i \in 1..Len(offered) |->
                        IF notna(offered[i].sub_parsed)
                        THEN days_between(offered[i].off_parsed, offered[i].sub_parsed)
                        ELSE 0]
    IN  IF offered # <<>> THEN int_trunc(Sum(days), Len(offered)) ELSE 0

\* 平均処理時間: the mean of offer date - submission date over the offered
\* rows that have a submission date (mean() skips the NaN differences),
\* truncated by int(); 0 when no offered row has a submission date.
avg_cycle_time(company_data) ==
    LET offered == Keep(company_data,
                        [i \in 1..Len(company_data) |->
                            notna(company_data[i].off_parsed)])
        valid   == Keep(offered,
                        [i \in 1..Len(offered) |-> notna(offered[i].sub_parsed)])
        days    == [i \in 1..Len(valid) |->
                        days_between(valid[i].off_parsed, valid[i].sub_parsed)]
    IN  IF offered # <<>> /\ valid # <<>>
        THEN int_trunc(Sum(days), Len(valid))
        ELSE 0

\* the list of metric rows kept from one call to the next
new_company_metrics_kept(previous) == previous

\* the list the metric rows are appended to starts empty on every call
new_company_metrics(previous) == <<>>

\* One iteration of the company loop: the metrics row of one company.
\*   recommendations = 推薦人数      submissions   = 書類提出数
\*   doc_results     = 書類結果回収済  doc_pass_rate = 書類通過率
\*   first_interviews = 1次面接数    first_pass_rate = 1次面接通過率
\*   final_interviews = 最終面接数   offers = 内定数   offer_rate = 内定率
\*   avg_cycle_time  = 平均処理時間
company_row(company, company_data) ==
    LET n == Len(company_data)
        cd(i) == company_data[i]
        recommendations == nunique(Col(company_data, "cand"))
        submissions == Count([i \in 1..n |-> notna(cd(i).sub_parsed)])
        doc_results == Count([i \in 1..n |->
                          notna(cd(i).sub_parsed) /\ cd(i).status # NoText])
        interviewing == Count([i \in 1..n |-> notna(cd(i).int_parsed)])
        first_interviews == Count([i \in 1..n |->
                          /\ ~cd(i).cnt.isna /\ cd(i).cnt.v = 1
                          /\ notna(cd(i).int_parsed)])
        first_passes == Count([i \in 1..n |->
                          /\ \/ ~cd(i).cnt.isna /\ cd(i).cnt.v > 1
                             \/ ~cd(i).flag.isna /\ cd(i).flag.v = 1
                          /\ notna(cd(i).int_parsed)])
        final_interviews == Count([i \in 1..n |->
                          /\ ~cd(i).flag.isna /\ cd(i).flag.v = 1
                          /\ notna(cd(i).int_parsed)])
        offers == Count([i \in 1..n |-> notna(cd(i).off_parsed)])
    IN  [company          |-> company,
         recommendations  |-> recommendations,
         submissions      |-> submissions,
         doc_results      |-> doc_results,
         doc_pass_rate    |-> rate(interviewing, submissions),
         first_interviews |-> first_interviews,
         first_pass_rate  |-> rate(first_passes, first_interviews),
         final_interviews |-> final_interviews,
         offers           |-> offers,
         offer_rate       |-> rate(offers, recommendations),
         avg_cycle_time   |-> avg_cycle_time(company_data)]

\* the company loop over df['企業：企業名'].unique()
company_rows(kept) ==
    LET companies == unique(Col(kept, "company"))
    IN  [j \in 1..Len(companies) |->
            company_row(companies[j],
                Keep(kept, [i \in 1..Len(kept) |-> kept[i].company = companies[j]]))]

\* the caller's table once calculate_metrics has assigned the three *_parsed
\* columns to it (lines 146-148 assign to the argument itself)
assign_parsed(t) == [t EXCEPT !.parsed = parsed_by_parse_date(t.rows)]

\* An outcome: the rows returned, or the exception raised.
Returned(rows) == [raised |-> "no", rows |-> rows]

Raised(what) == [raised |-> what, rows |-> <<>>]

\* app.py calculate_metrics.  `previous` is what the call before returned
\* (the function keeps nothing of it).  The result is the outcome together
\* with the caller's table as the call leaves it.
calculate_metrics(t, companies, months, previous) ==
    IF empty(t) THEN [outcome |-> Returned(<<>>), df |-> t]
    ELSE
      LET t1 == assign_parsed(t)
          w  == with_parsed(t1.rows, t1.parsed)
      IN  IF month_filter_active(months) /\ ~dt_accessible(t1.parsed)
          THEN [outcome |-> Raised("AttributeError"), df |-> t1]
          ELSE LET kept == filter_rows(w, companies, months)
               IN  [outcome |-> Returned(new_company_metrics(previous.rows)
                                         \o company_rows(kept)),
                    df |-> t1]

(***************************************************************************)
(* Column resolver                                                         *)
(***************************************************************************)
NoColumn == "None"

RECURSIVE find_column_last(_, _)
\* the last of possible_names that is a column
find_column_last(t, possible_names) ==
    IF possible_names = <<>> THEN NoColumn
    ELSE IF possible_names[Len(possible_names)] \in t.columns
         THEN possible_names[Len(possible_names)]
    ELSE find_column_last(t, SubSeq(possible_names, 1, Len(possible_names) - 1))

RECURSIVE find_column(_, _)
\* utils.py find_column: the first of possible_names that is a column
find_column(t, possible_names) ==
    IF possible_names = <<>> THEN NoColumn
    ELSE IF Head(possible_names) \in t.columns THEN Head(possible_names)
    ELSE find_column(t, Tail(possible_names))

\* The alias list of calculate_scouter_performance, in its order:
\*   スカウト担当者, スカウター：スカウター名, スカウター名, スカウター：名前,
\*   スカウター, scouter_name, スカウター：担当者, スカウター：ID, スカウター_ID
scouter_names ==
    <<"scout", "scouter:scouter_name", "scouter_mei", "scouter:namae",
      "scouter", "scouter_name", "scouter:tantosha", "scouter:ID", "scouter_ID">>

\* The alias list of the meeting-date column (lead time, case advisors):
\*   求職者：面談日, 面談：面談日, 面談日, 面談：日付, interview_date,
\*   面談：実施日, CA：面談日, 求職者：電話面談日
meeting_names ==
    <<"meeting", "mendan:mendanbi", "mendanbi", "mendan:hizuke",
      "interview_date", "mendan:jisshibi", "CA:mendanbi", "denwa_mendanbi">>

\* The alias list of the case-advisor column:
\*   求職者：担当者, CA：CA名, CA名, CA：名前, CA, ca_name, CA：担当者,
\*   キャリアアドバイザー, CA：ID, CA_ID, 求職者：担当チーム
ca_names ==
    <<"ca", "CA:CA_mei", "CA_mei", "CA:namae", "CA", "ca_name", "CA:tantosha",
      "career_advisor", "CA:ID", "CA_ID", "tanto_team">>

\* The alias list of the job requisition id:
\*   求人：求人ID, 求人ID, 求人：ID, job_id, JobID
job_names == <<"job", "kyujin_ID", "kyujin:ID", "job_id", "JobID">>

(***************************************************************************)
(* Funnel                                                                  *)
(***************************************************************************)
\* the stages, in the order of the dict literal:
\*   推薦, 書類提出, 書類通過, 1次面接, 2次面接以降, 最終面接, 内定
stages ==
    <<"referral", "submission", "document_pass", "first_interview",
      "second_plus_interview", "final_interview", "offer">>

\* the adjacent pairs of stage_pairs, by position in `stages`
stage_pairs == <<<<1, 2>>, <<2, 3>>, <<3, 4>>, <<4, 5>>, <<5, 6>>, <<6, 7>>>>

\* the counts with the first interview counted by the round alone, whether
\* the row has an interview date or not
stage_counts_by_round_alone(rows) ==
    LET n == Len(rows)
        seen(i) == rows[i].intv.k # "nan"
    IN  <<nunique(Col(rows, "cand")),
          Count([i \in 1..n |-> rows[i].sub.k # "nan"]),
          Count([i \in 1..n |-> seen(i)]),
          Count([i \in 1..n |-> ~rows[i].cnt.isna /\ rows[i].cnt.v >= 1]),
          Count([i \in 1..n |-> ~rows[i].cnt.isna /\ rows[i].cnt.v > 1 /\ seen(i)]),
          Count([i \in 1..n |-> ~rows[i].flag.isna /\ rows[i].flag.v = 1 /\ seen(i)]),
          Count([i \in 1..n |-> rows[i].off.k # "nan"])>>

\* the counts of the seven stages, before the zero counts are dropped; the
\* funnel reads the raw date columns (notna of the cell, parsed or not)
stage_counts(rows) ==
    LET n == Len(rows)
        seen(i) == rows[i].intv.k # "nan"
    IN  <<nunique(Col(rows, "cand")),
          Count([i \in 1..n |-> rows[i].sub.k # "nan"]),
          Count([i \in 1..n |-> seen(i)]),
          Count([i \in 1..n |-> ~rows[i].cnt.isna /\ rows[i].cnt.v >= 1 /\ seen(i)]),
          Count([i \in 1..n |-> ~rows[i].cnt.isna /\ rows[i].cnt.v > 1 /\ seen(i)]),
          Count([i \in 1..n |-> ~rows[i].flag.isna /\ rows[i].flag.v = 1 /\ seen(i)]),
          Count([i \in 1..n |-> rows[i].off.k # "nan"])>>

\* the rows counted, with the company name ignored
funnel_rows_unrestricted(t, company_name) == t.rows

\* `if company_name: df = df[df['企業：企業名'] == company_name]`
funnel_rows(t, company_name) ==
    IF company_name # NoText
    THEN Keep(t.rows, [i \in 1..Len(t.rows) |-> t.rows[i].company = company_name])
    ELSE t.rows

\* every stage kept, whatever its count
present_stages_all(c) == [k \in 1..7 |-> k]

\* `{k: v for k, v in funnel.items() if v > 0}`: the positions in `stages`
\* of the stages with a count > 0
present_stages(c) == Keep([k \in 1..7 |-> k], [k \in 1..7 |-> c[k] > 0])

\* utils.py calculate_conversion_funnel: company_name is a name or NoText
\* (None).  funnel lists the stages with a count > 0, conversion_rates the
\* pairs whose upstream count is > 0.
calculate_conversion_funnel(t, company_name) ==
    LET rows == funnel_rows(t, company_name)
        c == stage_counts(rows)
    IN  IF rows = <<>> THEN [funnel |-> <<>>, conversion_rates |-> <<>>]
        ELSE [funnel |->
                 LET present == present_stages(c)
                 IN  [j \in 1..Len(present) |->
                         [stage |-> stages[present[j]], count |-> c[present[j]]]],
              conversion_rates |->
                 LET emitted == Keep(stage_pairs,
                                     [k \in 1..6 |-> c[stage_pairs[k][1]] > 0])
                 IN  [j \in 1..Len(emitted) |->
                         [from |-> stages[emitted[j][1]],
                          to   |-> stages[emitted[j][2]],
                          rate |-> percent(c[emitted[j][2]], c[emitted[j][1]])]]]

(***************************************************************************)
(* Specialized aggregators                                                 *)
(***************************************************************************)
\* 紹介数 of a group: the candidates with an application-approved date, the
\* candidates of the group when there is none
referral_count(group, approved_parsed) ==
    LET approved == Keep(group, [i \in 1..Len(group) |-> notna(approved_parsed[i])])
        n == nunique(Col(approved, "cand"))
    IN  IF n = 0 THEN nunique(Col(group, "cand")) ELSE n

\* the statistics of one company over the filtered rows w, each with its
\* parsed offer date off_p and its parsed application-approved date app_p
company_stat(w, company) ==
    LET g == Keep(w, [i \in 1..Len(w) |-> w[i].company = company])
        referrals == referral_count(g, Col(g, "app_p"))
        contracts == Count([i \in 1..Len(g) |-> notna(g[i].off_p)])
    IN  [company |-> company, referrals |-> referrals,
         contracts |-> contracts,
         contract_rate |-> rate(contracts, referrals)]

\* calculate_company_introduction_to_contract_rate from the filtered table f
\* on.  Line 717 reads the column 進捗：応募OK日 before anything tests that
\* the table has it.
company_introduction_rates(f, infer) ==
    IF empty(f) THEN Returned(<<>>)
    ELSE IF "approved" \notin f.columns THEN Raised("KeyError")
    ELSE
      LET off_p == to_datetime_coerce(Col(f.rows, "off"), infer)
          app_p == to_datetime_coerce(Col(f.rows, "approved"), infer)
          names == unique(Col(f.rows, "company"))
      IN  Returned([j \in 1..Len(names) |->
                      CHOOSE r \in {company_stat(w, names[j]) :
                                      w \in {[i \in 1..Len(f.rows) |->
                                                f.rows[i] @@ [off_p |-> off_p[i],
                                                              app_p |-> app_p[i]]]}} :
                          TRUE])

\* utils.py calculate_company_introduction_to_contract_rate; the filtered
\* table is computed once
calculate_company_introduction_to_contract_rate(t, companies, months, infer) ==
    IF empty(t) THEN Returned(<<>>)
    ELSE CHOOSE r \in {company_introduction_rates(f, infer) :
                         f \in {apply_filters(t, companies, months, infer)}} : TRUE

\* the statistics of one scouter over the filtered rows w, each with its
\* parsed offer date off_p
scouter_stat(w, scouter) ==
    LET g == Keep(w, [i \in 1..Len(w) |-> w[i].scout = scouter])
        referrals == nunique(Col(g, "cand"))
        contracts == Count([i \in 1..Len(g) |-> notna(g[i].off_p)])
        submissions == Count([i \in 1..Len(g) |-> g[i].sub.k # "nan"])
    IN  [scouter |-> scouter, referrals |-> referrals,
         submissions |-> submissions,
         submission_rate |-> rate(submissions, referrals),
         contracts |-> contracts,
         contract_rate |-> rate(contracts, referrals)]

\* calculate_scouter_performance from the filtered table f on
scouter_rates(f, infer) ==
    IF empty(f) \/ find_column(f, scouter_names) = NoColumn THEN Returned(<<>>)
    ELSE
      LET off_p == to_datetime_coerce(Col(f.rows, "off"), infer)
          present == Keep(f.rows, [i \in 1..Len(f.rows) |-> f.rows[i].scout # NoText])
          names == unique(Col(present, "scout"))
      IN  Returned([j \in 1..Len(names) |->
                      CHOOSE r \in {scouter_stat(w, names[j]) :
                                      w \in {[i \in 1..Len(f.rows) |->
                                                f.rows[i] @@ [off_p |-> off_p[i]]]}} :
                          TRUE])

\* utils.py calculate_scouter_performance; the filtered table is computed once
calculate_scouter_performance(t, companies, months, infer) ==
    IF empty(t) THEN Returned(<<>>)
    ELSE CHOOSE r \in {scouter_rates(f, infer) :
                         f \in {apply_filters(t, companies, months, infer)}} : TRUE

\* the statistics of one job requisition over the filtered rows w, each with
\* its parsed offer date off_p and application-approved date app_p
job_stat(w, job_id) ==
    LET g == Keep(w, [i \in 1..Len(w) |-> w[i].job = job_id])
        referrals == referral_count(g, Col(g, "app_p"))
        contracts == Count([i \in 1..Len(g) |-> notna(g[i].off_p)])
    IN  [job |-> job_id, referrals |-> referrals,
         contracts |-> contracts,
         contract_rate |-> rate(contracts, referrals)]

\* calculate_job_introduction_to_contract_rate from the filtered table f on:
\* without a job id column the filtered table goes to the company
\* aggregator; with one, line 765 reads the column 進捗：応募OK日 before
\* anything tests that the table has it.
job_introduction_rates(f, companies, months, infer) ==
    IF empty(f) THEN Returned(<<>>)
    ELSE IF find_column(f, job_names) = NoColumn
    THEN calculate_company_introduction_to_contract_rate(f, companies, months, infer)
    ELSE IF "approved" \notin f.columns THEN Raised("KeyError")
    ELSE
      LET off_p == to_datetime_coerce(Col(f.rows, "off"), infer)
          app_p == to_datetime_coerce(Col(f.rows, "approved"), infer)
          present == Keep(f.rows, [i \in 1..Len(f.rows) |-> f.rows[i].job # NoText])
          ids == unique(Col(present, "job"))
      IN  Returned([j \in 1..Len(ids) |->
                      CHOOSE r \in {job_stat(w, ids[j]) :
                                      w \in {[i \in 1..Len(f.rows) |->
                                                f.rows[i] @@ [off_p |-> off_p[i],
                                                              app_p |-> app_p[i]]]}} :
                          TRUE])

\* utils.py calculate_job_introduction_to_contract_rate; the filtered table
\* is computed once
calculate_job_introduction_to_contract_rate(t, companies, months, infer) ==
    IF empty(t) THEN Returned(<<>>)
    ELSE CHOOSE r \in {job_introduction_rates(f, companies, months, infer) :
                         f \in {apply_filters(t, companies, months, infer)}} : TRUE

\* the statistics of one company over the rows w that have both dates, each
\* with its parsed meeting date meet_p and recommendation date rec_p; the
\* mean lead time is the exact fraction num/den
leadtime_stat(w, company) ==
    LET g == Keep(w, [i \in 1..Len(w) |-> w[i].company = company])
        days == [i \in 1..Len(g) |-> days_between(g[i].rec_p, g[i].meet_p)]
    IN  [company |-> company,
         avg_leadtime |-> [num |-> Sum(days), den |-> Len(g)],
         count |-> Len(g)]

\* calculate_interview_to_recommendation_leadtime from the filtered table f on
leadtime_rows(f, infer) ==
    IF empty(f) \/ find_column(f, meeting_names) = NoColumn THEN Returned(<<>>)
    ELSE
      LET rec_p  == to_datetime_coerce(Col(f.rows, "sub"), infer)
          meet_p == to_datetime_coerce(Col(f.rows, "meeting"), infer)
          both   == [i \in 1..Len(f.rows) |-> notna(meet_p[i]) /\ notna(rec_p[i])]
          names  == unique(Col(Keep(f.rows, both), "company"))
      IN  Returned([j \in 1..Len(names) |->
                      CHOOSE r \in {leadtime_stat(w, names[j]) :
                                      w \in {Keep([i \in 1..Len(f.rows) |->
                                                     f.rows[i] @@ [rec_p |-> rec_p[i],
                                                                   meet_p |-> meet_p[i]]],
                                                  both)}} :
                          TRUE])

\* utils.py calculate_interview_to_recommendation_leadtime; the filtered
\* table is computed once
calculate_interview_to_recommendation_leadtime(t, companies, months, infer) ==
    IF empty(t) THEN Returned(<<>>)
    ELSE CHOOSE r \in {leadtime_rows(f, infer) :
                         f \in {apply_filters(t, companies, months, infer)}} : TRUE

\* the case advisors of the model in the ascending order groupby puts its
\* keys in
advisors == <<"a1", "a2">>

\* the rows calculate_interviews_by_ca groups when it finds a meeting-date
\* column: those with a parsed meeting date
rows_with_meeting(f, infer) ==
    LET meet_p == to_datetime_coerce(Col(f.rows, "meeting"), infer)
    IN  Keep(f.rows, [i \in 1..Len(f.rows) |-> notna(meet_p[i])])

\* valid_data of calculate_interviews_by_ca: the rows with a parsed meeting
\* date when a meeting-date column is found, every row otherwise
ca_valid_data(f, infer) ==
    IF find_column(f, meeting_names) # NoColumn
    THEN rows_with_meeting(f, infer)
    ELSE f.rows

\* one row of groupby(ca_col).agg(nunique, nunique)
ca_stat(valid, advisor) ==
    LET g == Keep(valid, [i \in 1..Len(valid) |-> valid[i].ca = advisor])
    IN  [ca |-> advisor,
         interviews |-> nunique(Col(g, "cand")),
         companies |-> nunique(Col(g, "company"))]

\* calculate_interviews_by_ca from the filtered table f on (groupby drops
\* the rows without advisor)
ca_rows(f, infer) ==
    IF empty(f) \/ find_column(f, ca_names) = NoColumn THEN Returned(<<>>)
    ELSE CHOOSE r \in
           {Returned(LET present == Keep(advisors,
                             [k \in 1..Len(advisors) |->
                                 \E i \in 1..Len(valid) : valid[i].ca = advisors[k]])
                     IN  [j \in 1..Len(present) |-> ca_stat(valid, present[j])]) :
              valid \in {ca_valid_data(f, infer)}} : TRUE

\* utils.py calculate_interviews_by_ca; the filtered table is computed once
calculate_interviews_by_ca(t, companies, months, infer) ==
    IF empty(t) THEN Returned(<<>>)
    ELSE CHOOSE r \in {ca_rows(f, infer) :
                         f \in {apply_filters(t, companies, months, infer)}} : TRUE

(***************************************************************************)
(* main(): the rows handed to the funnel                                   *)
(***************************************************************************)
\* the entry 全体 of the funnel selectbox
Whole == "Whole"

\* available_companies: the selection without the sentinel, every company of
\* the table when the sentinel is selected (lines 848-851)
available_companies(t, companies) ==
    IF ALL \in Range(companies.items)
    THEN unique(Col(t.rows, "company"))
    ELSE companies.items

\* the options of the funnel selectbox (lines 853-860)
funnel_options(t, companies) ==
    IF Len(available_companies(t, companies)) > 1
    THEN {Whole} \cup Range(available_companies(t, companies))
    ELSE {Whole}

\* Lines 862-896 of main: a copy of the table is filtered by month (dates
\* parsed by parse_date) and then, for 全体 without the sentinel, by company;
\* a single company is left to calculate_conversion_funnel.  The result is
\* the rows the funnel counts, and the funnel.
main_funnel(t, companies, months, funnel_company) ==
    LET p == parsed_by_parse_date(t.rows)
        w == with_parsed(t.rows, p)
        by_month ==
            IF month_filter_active(months)
            THEN Keep(w, [i \in 1..Len(w) |-> month_mask(w[i], months.items)])
            ELSE w
        filtered ==
            IF funnel_company = Whole /\ ALL \notin Range(companies.items)
            THEN Keep(by_month, [i \in 1..Len(by_month) |->
                        company_mask(by_month[i], available_companies(t, companies))])
            ELSE by_month
        rows == [i \in 1..Len(filtered) |-> restrict(filtered[i], raw_fields)]
        counted == IF funnel_company = Whole THEN rows
                   ELSE Keep(rows, [i \in 1..Len(rows) |->
                                       rows[i].company = funnel_company])
    IN  IF month_filter_active(months) /\ ~dt_accessible(p)
        THEN [raised |-> "AttributeError", rows |-> <<>>,
              funnel |-> [funnel |-> <<>>, conversion_rates |-> <<>>]]
        ELSE [raised |-> "no", rows |-> counted,
              funnel |-> calculate_conversion_funnel(
                             Table(rows, t.columns),
                             IF funnel_company = Whole THEN NoText
                             ELSE funnel_company)]

(***************************************************************************)
(* Inputs                                                                  *)
(***************************************************************************)
\* a row without meeting date, case advisor and job requisition id
Row(cand, company, dates, cnt, flag, status, approved, scout) ==
    [cand |-> cand, company |-> company,
     sub |-> dates[1], intv |-> dates[2], off |-> dates[3],
     cnt |-> cnt, flag |-> flag, status |-> status,
     approved |-> approved, scout |-> scout,
     meeting |-> NaN, ca |-> NoText, job |-> NoText]

\* a row with the cells of its three other optional columns
with_optional(row, meeting, ca, job) ==
    [row EXCEPT !.meeting = meeting, !.ca = ca, !.job = job]

RECURSIVE Tables(_, _)
\* every sequence of at most n rows of `rows`
Tables(rows, n) ==
    IF n = 0 THEN {<<>>}
    ELSE LET shorter == Tables(rows, n - 1)
         IN  shorter \cup {Append(t, r) : t \in shorter, r \in rows}

\* The date cells (submission, interview, offer) of the rows of the filter
\* runs: undated; all three dates, in three different months; a date in
\* another format; an unparseable cell beside a date; an offer date alone,
\* beside an empty string.
FilterDates ==
    { <<NaN, NaN, NaN>>,
      <<Strict(2024, 1, 10), Strict(2024, 2, 20), Strict(2025, 1, 15)>>,
      <<General(2024, 2, 10), NaN, NaN>>,
      <<Bad, Strict(2024, 1, 5), NaN>>,
      <<Empty, NaN, Strict(2024, 2, 25)>> }

\* the date cells of the second company: undated, all three dates, an offer
\* date alone
FilterDatesBeta ==
    { <<NaN, NaN, NaN>>,
      <<Strict(2024, 1, 10), Strict(2024, 2, 20), Strict(2025, 1, 15)>>,
      <<NaN, NaN, Strict(2024, 2, 25)>> }

FilterRows ==
    { Row("c1", "Acme", d, Num(1), Num(0), "open", NaN, NoText) : d \in FilterDates }
    \cup
    { Row("c2", "Beta", d, Num(1), Num(0), "open", NaN, NoText) : d \in FilterDatesBeta }

Jan24 == MonthToken(2024, <<0, 1>>)

Feb24 == MonthToken(2024, <<0, 2>>)

Jan25 == MonthToken(2025, <<0, 1>>)

\* selections of companies: absent, empty, the sentinel alone, explicit
\* names, the sentinel before and after an explicit name
CompanySelections ==
    { None, List(<<>>), List(<<ALL>>), List(<<"Acme">>),
      List(<<"Beta", ALL>>), List(<<ALL, "Acme">>) }

\* selections of months, likewise; '2024-1' is January without padding
MonthSelections ==
    { None, List(<<>>), List(<<AllMonths>>), List(<<Jan24>>),
      List(<<MonthToken(2024, <<1>>)>>), List(<<Jan25>>),
      List(<<Feb24, Jan24>>), List(<<Feb24, AllMonths>>),
      List(<<AllMonths, Jan25>>) }

\* the selections of the filter runs: every selection of one dimension with
\* the sentinel and with an explicit choice in the other
FilterSelections ==
    (CompanySelections \X {List(<<AllMonths>>), List(<<Jan24>>), List(<<Feb24, Jan24>>)})
    \cup ({List(<<ALL>>), List(<<"Acme">>)} \X MonthSelections)

RECURSIVE sorted_reverse(_)
\* sorted(list(months), reverse=True) of 'YYYY-MM' tokens
sorted_reverse(S) ==
    IF S = {} THEN <<>>
    ELSE LET key(t) == t.y * 100 + int_of(t.digits)
             top == CHOOSE t \in S : \A u \in S : key(u) <= key(t)
         IN  <<top>> \o sorted_reverse(S \ {top})

\* the explicit selection of every month the sidebar offers
every_month(t) == List(sorted_reverse(get_available_months(t)))

\* the explicit selection of every company of the table
every_company(t) == List(unique(Col(t.rows, "company")))

Idle == [name |-> "idle", arg |-> NoText]

NoOutcome == [raised |-> "nothing called", rows |-> <<>>]

(***************************************************************************)
(* Operations                                                              *)
(***************************************************************************)
\* The sidebar.  Streamlit runs main() anew on every interaction, reading the
\* uploaded file again, so one run has one selection: it is made before the
\* first aggregator of the run is called.
Unselected ==
    /\ op = Idle
    /\ selected_companies = List(<<ALL>>)
    /\ selected_months = List(<<AllMonths>>)

SelectFilters(S) ==
    /\ Unselected
    /\ \E s \in S :
          /\ s # <<selected_companies, selected_months>>
          /\ selected_companies' = s[1]
          /\ selected_months' = s[2]
    /\ UNCHANGED <<df, df0, op, out, prev_out, format_inference, chat_history>>

\* the user selects every company the table has, one by one
SelectEveryCompany ==
    /\ op = Idle
    /\ ~empty(df)
    /\ selected_companies \in {List(<<ALL>>), List(<<"Acme">>)}
    /\ selected_companies' = every_company(df)
    /\ UNCHANGED <<df, df0, selected_months, op, out, prev_out, format_inference, chat_history>>

\* the user selects every month the sidebar offers, one by one
SelectEveryMonth ==
    /\ op = Idle
    /\ get_available_months(df) # {}
    /\ selected_months \in {List(<<AllMonths>>), List(<<Jan24>>)}
    /\ selected_months' = every_month(df)
    /\ UNCHANGED <<df, df0, selected_companies, op, out, prev_out, format_inference, chat_history>>

\* what a call leaves in op, out and prev_out
Called(name, arg, outcome) ==
    /\ op' = [name |-> name, arg |-> arg]
    /\ out' = outcome
    /\ prev_out' = IF op.name = name /\ op.arg = arg THEN out ELSE NoOutcome

\* metrics_df = calculate_metrics(df, selected_companies, selected_months)
CalculateMetrics ==
    LET r == calculate_metrics(df, selected_companies, selected_months,
                               IF op.name = "calculate_metrics" THEN out
                               ELSE NoOutcome)
    IN  /\ Called("calculate_metrics", NoText, r.outcome)
        /\ df' = r.df
        /\ UNCHANGED <<df0, selected_companies, selected_months, format_inference, chat_history>>

\* filtered = apply_filters(df, selected_companies, selected_months)
ApplyFilters ==
    /\ op' = [name |-> "apply_filters", arg |-> NoText]
    /\ out' = Returned(apply_filters(df, selected_companies, selected_months,
                                     format_inference))
    /\ prev_out' = NoOutcome
    /\ UNCHANGED <<df, df0, selected_companies, selected_months, format_inference, chat_history>>

\* main(), lines 848-896: reached once calculate_metrics has returned a
\* non-empty metrics_df in this run (lines 745-749)
MainFunnel ==
    /\ op.name = "calculate_metrics"
    /\ out.raised = "no" /\ out.rows # <<>>
    /\ selected_companies.given /\ selected_months.given
    /\ \E funnel_company \in funnel_options(df, selected_companies) :
          /\ op' = [name |-> "main_funnel", arg |-> funnel_company]
          /\ out' = main_funnel(df, selected_companies, selected_months,
                                funnel_company)
    /\ prev_out' = NoOutcome
    /\ UNCHANGED <<df, df0, selected_companies, selected_months, format_inference, chat_history>>

(***************************************************************************)
(* The filter stage                                                        *)
(***************************************************************************)
InitFilter ==
    /\ df0 \in {Uploaded(rows, {}) : rows \in Tables(FilterRows, MaxRows)}
    /\ df = df0
    /\ selected_companies = List(<<ALL>>)
    /\ selected_months = List(<<AllMonths>>)
    /\ op = Idle
    /\ out = NoOutcome
    /\ prev_out = NoOutcome
    /\ format_inference \in BOOLEAN
    /\ chat_history = NoHistory

NextFilter ==
    \/ SelectFilters(FilterSelections)
    \/ SelectEveryCompany
    \/ SelectEveryMonth
    \/ ApplyFilters
    \/ CalculateMetrics
    \/ MainFunnel

SpecFilter == InitFilter /\ [][NextFilter]_vars

(***************************************************************************)
(* The aggregators                                                         *)
(***************************************************************************)
\* calculate_company_introduction_to_contract_rate(df, selected_companies,
\* selected_months)
CompanyContractRate ==
    /\ Called("calculate_company_introduction_to_contract_rate", NoText,
              calculate_company_introduction_to_contract_rate(
                  df, selected_companies, selected_months, format_inference))
    /\ UNCHANGED <<df, df0, selected_companies, selected_months, format_inference, chat_history>>

\* calculate_job_introduction_to_contract_rate(df, selected_companies,
\* selected_months)
JobContractRate ==
    /\ Called("calculate_job_introduction_to_contract_rate", NoText,
              calculate_job_introduction_to_contract_rate(
                  df, selected_companies, selected_months, format_inference))
    /\ UNCHANGED <<df, df0, selected_companies, selected_months, format_inference, chat_history>>

\* calculate_scouter_performance(df, selected_companies, selected_months)
ScouterPerformance ==
    /\ Called("calculate_scouter_performance", NoText,
              calculate_scouter_performance(
                  df, selected_companies, selected_months, format_inference))
    /\ UNCHANGED <<df, df0, selected_companies, selected_months, format_inference, chat_history>>

\* calculate_conversion_funnel(df) and calculate_conversion_funnel(df, name)
ConversionFunnel ==
    /\ \E company_name \in {NoText, "Acme"} :
          Called("calculate_conversion_funnel", company_name,
                 [raised |-> "no", rows |-> <<>>,
                  funnel |-> calculate_conversion_funnel(df, company_name)])
    /\ UNCHANGED <<df, df0, selected_companies, selected_months, format_inference, chat_history>>

\* The rows of the aggregator runs, by (candidate, dates, interview count,
\* final flag, status, approved date, scout, job id): nothing at all; a
\* first interview; a final interview and an offer; an interview and an
\* offer beside an unparseable submission cell; an offer for a row without
\* candidate id.
MetricCells ==
    { <<"c1", <<NaN, NaN, NaN>>, NumNaN, NumNaN, NoText, NaN, NoText, NoText>>,
      <<"c1", <<Strict(2024, 1, 10), Strict(2024, 1, 20), NaN>>,
             Num(1), Num(0), "open", Strict(2024, 1, 5), "s1", "j1">>,
      <<"c1", <<Strict(2024, 1, 10), Strict(2024, 2, 20), Strict(2024, 2, 25)>>,
             Num(2), Num(1), "offer", NaN, "s1", "j1">>,
      <<"c2", <<Bad, Strict(2024, 2, 20), Strict(2024, 2, 25)>>,
             Num(2), Num(0), NoText, NaN, NoText, "j2">>,
      <<NoText, <<Strict(2024, 1, 10), NaN, Strict(2024, 1, 15)>>,
             NumNaN, NumNaN, "offer", NaN, "s2", "j2">> }

MetricCellsBeta ==
    { <<"c1", <<NaN, NaN, NaN>>, NumNaN, NumNaN, NoText, NaN, NoText, NoText>>,
      <<"c1", <<Strict(2024, 1, 10), Strict(2024, 2, 20), Strict(2024, 2, 25)>>,
             Num(2), Num(1), "offer", NaN, "s1", "j1">>,
      <<NoText, <<Strict(2024, 1, 10), NaN, Strict(2024, 1, 15)>>,
             NumNaN, NumNaN, "offer", NaN, "s2", "j2">> }

MetricRows ==
    { with_optional(Row(x[1], "Acme", x[2], x[3], x[4], x[5], x[6], x[7]),
                    NaN, NoText, x[8]) : x \in MetricCells }
    \cup
    { with_optional(Row(x[1], "Beta", x[2], x[3], x[4], x[5], x[6], x[7]),
                    NaN, NoText, x[8]) : x \in MetricCellsBeta }

MetricSelections ==
    { <<List(<<"Acme">>), List(<<AllMonths>>)>>,
      <<List(<<ALL>>), List(<<Jan24>>)>>,
      <<List(<<"Beta", "Acme">>), List(<<Feb24, Jan24>>)>> }

InitMetrics ==
    /\ df0 \in {Uploaded(rows, columns) :
                   rows \in Tables(MetricRows, MaxRows),
                   columns \in {{}, {"approved", "scout"}, {"job"},
                                {"approved", "scout", "job"}}}
    /\ df = df0
    /\ selected_companies = List(<<ALL>>)
    /\ selected_months = List(<<AllMonths>>)
    /\ op = Idle
    /\ out = NoOutcome
    /\ prev_out = NoOutcome
    /\ format_inference = TRUE
    /\ chat_history = NoHistory

NextMetrics ==
    \/ SelectFilters(MetricSelections)
    \/ CalculateMetrics
    \/ ApplyFilters
    \/ CompanyContractRate
    \/ JobContractRate
    \/ ScouterPerformance
    \/ ConversionFunnel

SpecMetrics == InitMetrics /\ [][NextMetrics]_vars

(***************************************************************************)
(* The counts of one company                                               *)
(***************************************************************************)
MaxCountRows == 3

\* three candidates of one company and one of another, each with no date,
\* a submission, a submission and an offer five days later, an offer beside
\* a submission cell that parse_date rejects, or an offer dated three days
\* before its submission (across the end of February of a leap year)
CountDates ==
    { <<NaN, NaN, NaN>>,
      <<Strict(2024, 1, 10), NaN, NaN>>,
      <<Strict(2024, 1, 10), NaN, Strict(2024, 1, 15)>>,
      <<Bad, NaN, Strict(2024, 1, 15)>>,
      <<Strict(2024, 3, 2), NaN, Strict(2024, 2, 28)>> }

CountDatesBeta ==
    { <<NaN, NaN, NaN>>,
      <<Strict(2024, 1, 10), NaN, Strict(2024, 1, 15)>> }

CountRows ==
    { Row(c, "Acme", d, NumNaN, NumNaN, NoText, NaN, NoText) :
        c \in {"c1", "c2", "c3"}, d \in CountDates }
    \cup
    { Row("c1", "Beta", d, NumNaN, NumNaN, NoText, NaN, NoText) : d \in CountDatesBeta }

InitCounts ==
    /\ df0 \in {Uploaded(rows, {}) : rows \in Tables(CountRows, MaxCountRows)}
    /\ df = df0
    /\ selected_companies = List(<<ALL>>)
    /\ selected_months = List(<<AllMonths>>)
    /\ op = Idle
    /\ out = NoOutcome
    /\ prev_out = NoOutcome
    /\ format_inference = TRUE
    /\ chat_history = NoHistory

NextCounts ==
    \/ SelectFilters({<<List(<<"Acme">>), List(<<AllMonths>>)>>})
    \/ CalculateMetrics

SpecCounts == InitCounts /\ [][NextCounts]_vars

(***************************************************************************)
(* The aggregators of the optional columns                                 *)
(***************************************************************************)
\* calculate_interview_to_recommendation_leadtime(df, selected_companies,
\* selected_months)
Leadtime ==
    /\ Called("calculate_interview_to_recommendation_leadtime", NoText,
              calculate_interview_to_recommendation_leadtime(
                  df, selected_companies, selected_months, format_inference))
    /\ UNCHANGED <<df, df0, selected_companies, selected_months, format_inference, chat_history>>

\* calculate_interviews_by_ca(df, selected_companies, selected_months)
InterviewsByCA ==
    /\ Called("calculate_interviews_by_ca", NoText,
              calculate_interviews_by_ca(
                  df, selected_companies, selected_months, format_inference))
    /\ UNCHANGED <<df, df0, selected_companies, selected_months, format_inference, chat_history>>

\* The rows of these runs, by (candidate, company, submission date, meeting
\* date, advisor, scout): a meeting on the day of the submission; a meeting
\* six days before it; an advisor's row without any date; a malformed
\* meeting date; a meeting without advisor and scout; nothing at all.
AliasCells ==
    { <<"c1", "Acme", Strict(2024, 1, 10), Strict(2024, 1, 10), "a1", "s1">>,
      <<"c2", "Acme", Strict(2024, 1, 10), Strict(2024, 1, 4), "a1", "s1">>,
      <<"c1", "Acme", NaN, NaN, "a2", NoText>>,
      <<"c2", "Beta", Strict(2024, 2, 10), Bad, "a1", "s2">>,
      <<"c1", "Beta", Strict(2024, 1, 10), Strict(2024, 1, 10), NoText, NoText>>,
      <<"c1", "Acme", NaN, NaN, NoText, NoText>> }

AliasRows ==
    { with_optional(Row(x[1], x[2], <<x[3], NaN, NaN>>, NumNaN, NumNaN, NoText,
                        NaN, x[6]),
                    x[4], x[5], NoText) : x \in AliasCells }

\* the optional columns a table has: any of the three under their first
\* alias, or all three under a later alias
AliasColumns ==
    (SUBSET {"meeting", "ca", "scout"})
    \cup {{"interview_date", "ca_name", "scouter_name"}}

AliasSelections ==
    { <<List(<<"Acme">>), List(<<AllMonths>>)>>,
      <<List(<<ALL>>), List(<<Jan24>>)>>,
      <<List(<<"Beta">>), List(<<Jan25>>)>> }

InitAliases ==
    /\ df0 \in {Uploaded(rows, columns) :
                   rows \in Tables(AliasRows, MaxRows),
                   columns \in AliasColumns}
    /\ df = df0
    /\ selected_companies = List(<<ALL>>)
    /\ selected_months = List(<<AllMonths>>)
    /\ op = Idle
    /\ out = NoOutcome
    /\ prev_out = NoOutcome
    /\ format_inference = TRUE
    /\ chat_history = NoHistory

NextAliases ==
    \/ SelectFilters(AliasSelections)
    \/ Leadtime
    \/ InterviewsByCA
    \/ ScouterPerformance

SpecAliases == InitAliases /\ [][NextAliases]_vars

(***************************************************************************)
(* The column resolver on its own                                          *)
(***************************************************************************)
MaxNames == 3

\* the column names the tables and the candidate lists are made of
ColumnNames == {"scout", "scouter_name", "interview_date", "ca_name"}

RECURSIVE NameLists(_)
\* every candidate list of at most n of these names
NameLists(n) ==
    IF n = 0 THEN {<<>>}
    ELSE LET shorter == NameLists(n - 1)
         IN  shorter \cup {Append(l, c) : l \in shorter, c \in ColumnNames}

\* scouter_col = find_column(df, [...]), for any candidate list
FindColumn ==
    /\ \E possible_names \in NameLists(MaxNames)
                              \cup {scouter_names, meeting_names, ca_names} :
          /\ op' = [name |-> "find_column", arg |-> possible_names]
          /\ out' = [raised |-> "no", rows |-> <<>>,
                     column |-> find_column(df, possible_names)]
    /\ prev_out' = NoOutcome
    /\ UNCHANGED <<df, df0, selected_companies, selected_months, format_inference, chat_history>>

InitColumns ==
    /\ df0 \in {Table(<<>>, columns) : columns \in SUBSET ColumnNames}
    /\ df = df0
    /\ selected_companies = List(<<ALL>>)
    /\ selected_months = List(<<AllMonths>>)
    /\ op = Idle
    /\ out = NoOutcome
    /\ prev_out = NoOutcome
    /\ format_inference = TRUE
    /\ chat_history = NoHistory

NextColumns == FindColumn

SpecColumns == InitColumns /\ [][NextColumns]_vars

(***************************************************************************)
(* Properties of the filter stage                                          *)
(***************************************************************************)
applied == op.name = "apply_filters"

measured == op.name = "calculate_metrics"

\* what apply_filters and calculate_metrics give for the table of this run
\* under another selection
filtered_with(companies, months) ==
    Returned(apply_filters(df, companies, months, format_inference))

metrics_with(companies, months) ==
    calculate_metrics(df, companies, months, NoOutcome).outcome

\* a selection that names the sentinel, is empty, or is absent
disabling(sel, sentinel) ==
    ~sel.given \/ sel.items = <<>> \/ \E i \in 1..Len(sel.items) : sel.items[i] = sentinel

\* a selection of explicit values only
explicit(sel, sentinel) ==
    sel.given /\ sel.items # <<>> /\ \A i \in 1..Len(sel.items) : sel.items[i] # sentinel

\* the parsed dates of row i of a filtered table fall in no month at all
undated(p) == \A f \in parsed_fields : p[f] = NaT

\* the parsed dates p of a row fall in one of the months
dated_in(p, months) ==
    \E f \in parsed_fields, k \in 1..Len(months) :
        /\ p[f] # NaT
        /\ p[f].y = months[k].y
        /\ p[f].m = int_of(months[k].digits)

\* the table of this run without the rows that no date of parse_date dates
dated_only(t) ==
    LET p == parsed_by_parse_date(t.rows)
    IN  Table(Keep(t.rows, [i \in 1..Len(t.rows) |-> ~undated(p[i])]), t.columns)

\* every lifecycle column of the table holds a date parse_date accepts
every_column_dated(t) ==
    \A f \in {"sub", "intv", "off"} :
        \E i \in 1..Len(t.rows) : parse_date(t.rows[i][f]) # NaT

C4_SentinelDisablesFilter ==
    /\ (applied /\ disabling(selected_companies, ALL))
          => out = filtered_with(List(<<ALL>>), selected_months)
    /\ (applied /\ disabling(selected_months, AllMonths))
          => out = filtered_with(selected_companies, List(<<AllMonths>>))
    /\ (measured /\ disabling(selected_companies, ALL))
          => out = metrics_with(List(<<ALL>>), selected_months)
    /\ (measured /\ disabling(selected_months, AllMonths))
          => out = metrics_with(selected_companies, List(<<AllMonths>>))
    /\ (applied /\ disabling(selected_companies, ALL)
                /\ disabling(selected_months, AllMonths))
          => out.raised = "no" /\ out.rows.rows = df.rows

\* C4 witness: the sentinel follows an explicit company, and a row of another
\* company was kept
C4_Witness ==
    /\ applied
    /\ selected_companies = List(<<"Beta", ALL>>)
    /\ \E i \in 1..Len(out.rows.rows) : out.rows.rows[i].company = "Acme"

\* the table of this run reduced to the rows of the selected companies that
\* a date of parse_date puts in one of the selected months
in_selection_only(t, companies, months) ==
    LET p == parsed_by_parse_date(t.rows)
        keep(i) ==
            /\ explicit(companies, ALL) =>
                  \E k \in 1..Len(companies.items) :
                      companies.items[k] = t.rows[i].company
            /\ explicit(months, AllMonths) => dated_in(p[i], months.items)
    IN  Table(Keep(t.rows, [i \in 1..Len(t.rows) |-> keep(i)]), t.columns)

\* C7 as stated: under an active month filter a row is kept exactly when one
\* of its three parsed dates falls in a selected (year, month) pair; seen in
\* the rows apply_filters returns and in the rows calculate_metrics measures.
C7_MonthFilterKeeps ==
    /\ (applied /\ explicit(selected_months, AllMonths))
          => LET a == apply_filters(df, selected_companies, List(<<AllMonths>>),
                                    format_inference)
             IN  /\ out.raised = "no"
                 /\ out.rows.rows =
                       Keep(a.rows, [i \in 1..Len(a.rows) |->
                               dated_in(a.parsed[i], selected_months.items)])
    /\ (measured /\ explicit(selected_months, AllMonths))
          => out = calculate_metrics(
                       in_selection_only(df, selected_companies, selected_months),
                       List(<<ALL>>), List(<<AllMonths>>), NoOutcome).outcome

\* the half of C7 that is about apply_filters
C7_ApplyFiltersHalf ==
    (applied /\ explicit(selected_months, AllMonths))
        => LET a == apply_filters(df, selected_companies, List(<<AllMonths>>),
                                  format_inference)
           IN  /\ out.raised = "no"
               /\ out.rows.rows =
                     Keep(a.rows, [i \in 1..Len(a.rows) |->
                             dated_in(a.parsed[i], selected_months.items)])

\* the elements of a that occur in b, in the order of a
Intersect(a, b) == Keep(a, [i \in 1..Len(a) |-> a[i] \in Range(b)])

funnelled == op.name = "main_funnel" /\ op.arg = Whole

\* C8: with both filters active the rows kept are the rows kept by the
\* company filter alone that the month filter alone keeps too; in
\* apply_filters, which filters by company first, and in main's filter for
\* the funnel, which filters by month first.
C8_FiltersComposeWithAnd ==
    /\ (applied /\ explicit(selected_companies, ALL)
                /\ explicit(selected_months, AllMonths))
          => /\ out.raised = "no"
             /\ out.rows.rows =
                   Intersect(filtered_with(selected_companies, List(<<AllMonths>>)).rows.rows,
                             filtered_with(List(<<ALL>>), selected_months).rows.rows)
    /\ (funnelled /\ explicit(selected_companies, ALL)
                  /\ explicit(selected_months, AllMonths))
          => /\ out.raised = "no"
             /\ out.rows =
                   Intersect(main_funnel(df, selected_companies, List(<<AllMonths>>),
                                         Whole).rows,
                             main_funnel(df, List(<<ALL>>), selected_months,
                                         Whole).rows)
             /\ out.rows = in_selection_only(df, selected_companies,
                                             selected_months).rows

\* C8 witness: each filter alone keeps a row that the two together drop
C8_Witness ==
    /\ applied
    /\ explicit(selected_companies, ALL) /\ explicit(selected_months, AllMonths)
    /\ Len(out.rows.rows)
          < Len(filtered_with(selected_companies, List(<<AllMonths>>)).rows.rows)
    /\ Len(out.rows.rows)
          < Len(filtered_with(List(<<ALL>>), selected_months).rows.rows)

\* C9 as stated: calculate_metrics raises nothing and returns one row per
\* distinct company of the rows that remain after filtering (none when the
\* table is empty or no row remains).
C9_OneRowPerCompany ==
    measured
        => /\ out.raised = "no"
           /\ Col(out.rows, "company") =
                 unique(Col(in_selection_only(df, selected_companies,
                                              selected_months).rows, "company"))

(***************************************************************************)
(* Properties of the aggregators                                           *)
(***************************************************************************)
rate_fields == {"doc_pass_rate", "first_pass_rate", "offer_rate"}

\* a rate that is a number between 0 and 100
within_percent(r) == defined(r) /\ 0 <= r.num /\ r.num <= 100 * r.den

\* C1 as stated: every rate field of every row calculate_metrics returns
\* lies in the closed range [0,100].
C1_RatesWithinRange ==
    measured
        => \A j \in 1..Len(out.rows), f \in rate_fields :
              within_percent(out.rows[j][f])

\* C2: a rate whose denominator is 0 is exactly 0.0, and no rate is
\* undefined: in calculate_metrics (submissions, first interviews and
\* recommendations as denominators) and in the company and the scouter
\* aggregators (referrals as denominator).
C2_ZeroDenominatorGivesZero ==
    /\ measured
          => \A j \in 1..Len(out.rows) :
                LET row == out.rows[j]
                IN  /\ \A f \in rate_fields : defined(row[f])
                    /\ row.submissions = 0 => row.doc_pass_rate = Zero
                    /\ row.first_interviews = 0 => row.first_pass_rate = Zero
                    /\ row.recommendations = 0 => row.offer_rate = Zero
    /\ op.name = "calculate_company_introduction_to_contract_rate"
          => \A j \in 1..Len(out.rows) :
                LET row == out.rows[j]
                IN  /\ defined(row.contract_rate)
                    /\ row.referrals = 0 => row.contract_rate = Zero
    /\ op.name = "calculate_scouter_performance"
          => \A j \in 1..Len(out.rows) :
                LET row == out.rows[j]
                IN  /\ defined(row.submission_rate) /\ defined(row.contract_rate)
                    /\ row.referrals = 0 => /\ row.submission_rate = Zero
                                            /\ row.contract_rate = Zero

\* C2 witness: a company with an offer and no candidate id, so that the
\* offer rate has a non-zero numerator over a zero denominator
C2_Witness ==
    /\ measured
    /\ \E j \in 1..Len(out.rows) :
          /\ out.rows[j].recommendations = 0
          /\ out.rows[j].offers > 0
          /\ out.rows[j].offer_rate = Zero

\* C5 as stated: no call changes the table the caller passed in.
C5_CallerTableUnchanged == df = df0

\* C6: an aggregator called twice in succession with the same table and the
\* same selection returns the second time what it returned the first time.
C6_SecondCallIdentical == prev_out # NoOutcome => out = prev_out

\* C6 witness: calculate_metrics returned rows on its second call, made on
\* the table as the first call left it
C6_Witness ==
    /\ measured
    /\ prev_out # NoOutcome
    /\ out.rows # <<>>
    /\ df # df0

(***************************************************************************)
(* Properties of the counts                                                *)
(***************************************************************************)
\* C10: in every row of calculate_metrics the recommendations are the
\* distinct candidate ids of the company's rows, the submissions its rows
\* with a submission date, the offers its rows with an offer date, and the
\* offer rate is offers / recommendations * 100.
C10_CountsOfCompanyRows ==
    measured
        => \A j \in 1..Len(out.rows) :
              LET row  == out.rows[j]
                  rows == in_selection_only(df, selected_companies,
                                            selected_months).rows
                  own  == {i \in 1..Len(rows) : rows[i].company = row.company}
                  candidates == {rows[i].cand : i \in own} \ {NoText}
                  submitted  == {i \in own : parse_date(rows[i].sub) # NaT}
                  offered    == {i \in own : parse_date(rows[i].off) # NaT}
              IN  /\ row.recommendations = Cardinality(candidates)
                  /\ row.submissions = Cardinality(submitted)
                  /\ row.offers = Cardinality(offered)
                  /\ candidates # {}
                        => /\ defined(row.offer_rate)
                           /\ row.offer_rate.num * Cardinality(candidates)
                                 = Cardinality(offered) * 100 * row.offer_rate.den

\* C10 witness: three rows of Acme with three candidates, two submissions
\* and one offer five days after its submission give 3, 2, 1 and 100/3 %
C10_Witness ==
    /\ measured
    /\ Len(df.rows) = 3
    /\ \E j \in 1..Len(out.rows) :
          /\ out.rows[j].company = "Acme"
          /\ out.rows[j].recommendations = 3
          /\ out.rows[j].submissions = 2
          /\ out.rows[j].offers = 1
          /\ out.rows[j].offer_rate = [num |-> 100, den |-> 3]
          /\ out.rows[j].avg_cycle_time = 5

\* the rows of a company that calculate_metrics measured in this run
measured_rows_of(company) ==
    LET rows == in_selection_only(df, selected_companies, selected_months).rows
    IN  Keep(rows, [i \in 1..Len(rows) |-> rows[i].company = company])

\* C11: the average cycle time of a company is the mean of offer date minus
\* submission date, in days, over its offered rows (those that have a
\* submission date), truncated towards zero, and 0 when no offered row has a
\* submission date.
C11_AverageCycleTime ==
    measured
        => \A j \in 1..Len(out.rows) :
              LET rows == measured_rows_of(out.rows[j].company)
                  timed == {i \in 1..Len(rows) :
                               /\ parse_date(rows[i].off) # NaT
                               /\ parse_date(rows[i].sub) # NaT}
                  gap(i) == toordinal(parse_date(rows[i].off))
                               - toordinal(parse_date(rows[i].sub))
                  T[k \in 0..Len(rows)] ==
                      IF k = 0 THEN 0
                      ELSE T[k - 1] + (IF k \in timed THEN gap(k) ELSE 0)
                  total == T[Len(rows)]
                  n == Cardinality(timed)
                  avg == out.rows[j].avg_cycle_time
              IN  IF n = 0 THEN avg = 0
                  ELSE IF total >= 0
                       THEN n * avg <= total /\ total < n * (avg + 1)
                       ELSE n * (avg - 1) < total /\ total <= n * avg

\* C11 witness: offers 5 days after, 3 days before and 3 days before their
\* submissions have the mean -1/3, truncated to 0
C11_Witness ==
    /\ measured
    /\ \E j \in 1..Len(out.rows) :
          LET rows == measured_rows_of(out.rows[j].company)
          IN  /\ Len(rows) = 3
              /\ \E a, b, c \in 1..3 :
                    /\ {a, b, c} = {1, 2, 3}
                    /\ rows[a].off = Strict(2024, 1, 15) /\ rows[a].sub = Strict(2024, 1, 10)
                    /\ rows[b].off = Strict(2024, 2, 28) /\ rows[b].sub = Strict(2024, 3, 2)
                    /\ rows[c].off = Strict(2024, 2, 28) /\ rows[c].sub = Strict(2024, 3, 2)
              /\ out.rows[j].avg_cycle_time = 0

(***************************************************************************)
(* Properties of the funnel                                                *)
(***************************************************************************)
funnel_called == op.name = "calculate_conversion_funnel"

\* the rows of the table that belong to the company the funnel was asked
\* for (every row when it was asked for none)
asked_rows ==
    IF op.arg = NoText THEN df.rows
    ELSE Keep(df.rows, [i \in 1..Len(df.rows) |-> df.rows[i].company = op.arg])

\* the seven stages in their fixed order
stage_order ==
    <<"referral", "submission", "document_pass", "first_interview",
      "second_plus_interview", "final_interview", "offer">>

\* the place of a stage in the fixed order
place(stage) == CHOOSE k \in 1..7 : stage_order[k] = stage

\* the count the emitted stage mapping f gives a stage, 0 when it is absent
count_in(f, stage) ==
    IF \E j \in 1..Len(f) : f[j].stage = stage
    THEN f[CHOOSE j \in 1..Len(f) : f[j].stage = stage].count
    ELSE 0

\* C12: the stage mapping holds exactly the stages with a count > 0, in the
\* fixed order, counted over the rows of the company asked for; no row
\* gives two empty mappings.
C12_FunnelStages ==
    funnel_called
        => LET f == out.funnel.funnel
               c == stage_counts(asked_rows)
           IN  /\ \A j \in 1..Len(f) :
                     /\ f[j].stage \in Range(stage_order)
                     /\ f[j].count > 0
                     /\ f[j].count = c[place(f[j].stage)]
               /\ \A k \in 1..7 :
                     c[k] > 0 => \E j \in 1..Len(f) : f[j].stage = stage_order[k]
               /\ \A i, j \in 1..Len(f) :
                     i < j => place(f[i].stage) < place(f[j].stage)
               /\ asked_rows = <<>>
                     => f = <<>> /\ out.funnel.conversion_rates = <<>>

\* C12 witness: the funnel of one company of a table of two dropped a stage
\* between two stages it kept
C12_Witness ==
    /\ funnel_called
    /\ op.arg = "Acme"
    /\ Len(asked_rows) < Len(df.rows)
    /\ \E i, j \in 1..Len(out.funnel.funnel) :
          /\ j = i + 1
          /\ place(out.funnel.funnel[j].stage) > place(out.funnel.funnel[i].stage) + 1

\* C13 as stated: a pass rate is emitted for an adjacent pair only if both
\* stages have a count > 0, so that both are in the emitted stage mapping,
\* and it is the downstream count over the upstream count.
C13_PassRateBetweenPresentStages ==
    funnel_called
        => LET f == out.funnel.funnel
               r == out.funnel.conversion_rates
           IN  \A j \in 1..Len(r) :
                  /\ place(r[j].to) = place(r[j].from) + 1
                  /\ count_in(f, r[j].from) > 0
                  /\ count_in(f, r[j].to) > 0
                  /\ r[j].rate = percent(count_in(f, r[j].to), count_in(f, r[j].from))

\* what of C13 the code does keep: every emitted pass rate has an upstream
\* stage that is present, and is the downstream count over the upstream one
C13_UpstreamPresent ==
    funnel_called
        => LET f == out.funnel.funnel
               r == out.funnel.conversion_rates
           IN  \A j \in 1..Len(r) :
                  /\ place(r[j].to) = place(r[j].from) + 1
                  /\ count_in(f, r[j].from) > 0
                  /\ r[j].rate = percent(count_in(f, r[j].to), count_in(f, r[j].from))

\* C14: the offer count of the funnel is at most the number of rows counted.
\* (That it may exceed the first-interview count is the state of C14_Witness.)
C14_OffersAtMostRows ==
    funnel_called
        => count_in(out.funnel.funnel, "offer") <= Len(asked_rows)

\* C14 witness: a funnel whose offer count exceeds its first-interview count
C14_Witness ==
    /\ funnel_called
    /\ count_in(out.funnel.funnel, "offer")
          > count_in(out.funnel.funnel, "first_interview")
    /\ count_in(out.funnel.funnel, "first_interview") > 0

(***************************************************************************)
(* Properties of the column resolver                                       *)
(***************************************************************************)
resolved == op.name = "find_column"

\* C15: find_column returns the first candidate, in list order, that is a
\* column of the table, and NoColumn (None), raising nothing, when no
\* candidate is a column.
C15_FirstPresentCandidate ==
    resolved
        => LET present == {k \in 1..Len(op.arg) : op.arg[k] \in df.columns}
           IN  /\ out.raised = "no"
               /\ IF present = {} THEN out.column = NoColumn
                  ELSE /\ out.column = op.arg[CHOOSE k \in present :
                                                 \A l \in present : k <= l]
                       /\ \A k \in present :
                             op.arg[k] # out.column
                                => \E l \in 1..(k - 1) : op.arg[l] = out.column

\* C15 witness: the first candidate is no column and the two after it are
\* columns; the second candidate was returned
C15_Witness ==
    /\ resolved
    /\ Len(op.arg) = 3
    /\ op.arg[1] \notin df.columns
    /\ op.arg[2] \in df.columns /\ op.arg[3] \in df.columns
    /\ op.arg[2] # op.arg[3]
    /\ out.column = op.arg[2]

(***************************************************************************)
(* Properties of the date normalizer                                       *)
(***************************************************************************)
date_fields == {"sub", "intv", "off"}

parsed_field(f) ==
    IF f = "sub" THEN "sub_parsed" ELSE IF f = "intv" THEN "int_parsed" ELSE "off_parsed"

\* the table has a date cell that neither parser accepts
has_malformed(t) ==
    \E i \in 1..Len(t.rows), f \in date_fields : t.rows[i][f].k = "bad"

\* the table with its malformed date cells absent
without_malformed(t) ==
    [t EXCEPT !.rows =
        [i \in 1..Len(t.rows) |->
            [f \in DOMAIN t.rows[i] |->
                IF f \in date_fields /\ t.rows[i][f].k = "bad"
                THEN NaN ELSE t.rows[i][f]]]]

\* every *_parsed cell that calculate_metrics wrote is null for a null, an
\* empty or a malformed cell and the timestamp of the cell otherwise
parsed_as_specified ==
    \A i \in 1..Len(df.rows), f \in date_fields :
        LET cell == df.rows[i][f]
        IN  df.parsed[i][parsed_field(f)] =
               IF cell.k \in {"nan", "empty", "bad"} THEN NaT
               ELSE Timestamp(cell.y, cell.m, cell.d)

\* C16 as stated: parse_date gives null for null, empty and malformed cells
\* and the timestamp otherwise, and a malformed date among the rows does not
\* abort calculate_metrics, which treats it as an absent date.
C16_MalformedDateDoesNotAbort ==
    (measured /\ ~empty(df))
        => /\ parsed_as_specified
           /\ has_malformed(df)
                 => /\ out.raised = "no"
                    /\ out = calculate_metrics(without_malformed(df),
                                 selected_companies, selected_months,
                                 NoOutcome).outcome

\* what of C16 the code does keep: the parsed cells are as specified and
\* calculate_metrics ends as it ends on the table with the malformed dates
\* absent
C16_MalformedAsAbsent ==
    (measured /\ ~empty(df))
        => /\ parsed_as_specified
           /\ out = calculate_metrics(without_malformed(df), selected_companies,
                                      selected_months, NoOutcome).outcome

(***************************************************************************)
(* Properties of the aggregators of the optional columns                   *)
(***************************************************************************)
leadtime_called == op.name = "calculate_interview_to_recommendation_leadtime"

ca_called == op.name = "calculate_interviews_by_ca"

scouter_called == op.name = "calculate_scouter_performance"

\* the table without the columns of an alias list
without_columns(t, names) == [t EXCEPT !.columns = @ \ Range(names)]

\* no alias of the list is a column of the table
unresolved(t, names) == t.columns \cap Range(names) = {}

\* the filters of this run leave no row of the table
nothing_left ==
    empty(apply_filters(df, selected_companies, selected_months, format_inference))

leadtime_on(t) ==
    calculate_interview_to_recommendation_leadtime(
        t, selected_companies, selected_months, format_inference)

ca_on(t) ==
    calculate_interviews_by_ca(t, selected_companies, selected_months,
                               format_inference)

scouter_on(t) ==
    calculate_scouter_performance(t, selected_companies, selected_months,
                                  format_inference)

\* the three aggregators raise nothing, and return no row on an empty
\* table, when no row is left and when their own column is not resolved; a
\* lead-time row stands for at least one pair of dates, so that no row at
\* all is not a mean of 0
empty_never_raising ==
    /\ (leadtime_called \/ ca_called \/ scouter_called) => out.raised = "no"
    /\ (leadtime_called /\ (nothing_left \/ unresolved(df, meeting_names)))
          => out.rows = <<>>
    /\ (ca_called /\ (nothing_left \/ unresolved(df, ca_names)))
          => out.rows = <<>>
    /\ (scouter_called /\ (nothing_left \/ unresolved(df, scouter_names)))
          => out.rows = <<>>
    /\ leadtime_called => \A j \in 1..Len(out.rows) : out.rows[j].count >= 1

\* C17 as stated: the lead-time, case-advisor and scout aggregators return
\* an empty result and raise nothing on an empty table, when no row is left
\* and when their column is not resolved; the result of each is the same
\* without the column of a sibling; an empty lead-time result differs from a
\* row with mean 0.
C17_MissingColumnIsolated ==
    /\ empty_never_raising
    /\ leadtime_called
          => /\ out = leadtime_on(without_columns(df, ca_names))
             /\ out = leadtime_on(without_columns(df, scouter_names))
    /\ ca_called
          => /\ out = ca_on(without_columns(df, meeting_names))
             /\ out = ca_on(without_columns(df, scouter_names))
    /\ scouter_called
          => /\ out = scouter_on(without_columns(df, meeting_names))
             /\ out = scouter_on(without_columns(df, ca_names))

\* what of C17 the code does keep: everything but the case-advisor result
\* being the same without the meeting-date column
C17_IsolatedButForMeetingDate ==
    /\ empty_never_raising
    /\ leadtime_called
          => /\ out = leadtime_on(without_columns(df, ca_names))
             /\ out = leadtime_on(without_columns(df, scouter_names))
    /\ ca_called => out = ca_on(without_columns(df, scouter_names))
    /\ scouter_called
          => /\ out = scouter_on(without_columns(df, meeting_names))
             /\ out = scouter_on(without_columns(df, ca_names))

(***************************************************************************)
(* Properties of the introduction-to-contract aggregators                  *)
(***************************************************************************)
company_rate_called == op.name = "calculate_company_introduction_to_contract_rate"

job_rate_called == op.name = "calculate_job_introduction_to_contract_rate"

\* the rows the filters of this run leave
left_rows ==
    apply_filters(df, selected_companies, selected_months, format_inference).rows

\* the table has a job requisition id column
by_job == find_column(df, job_names) # NoColumn

\* the referral count of the rows at the positions `own` of `rows`: the
\* candidates with an application-approved date when the table has the
\* column and there is one, the candidates of the group otherwise
referrals_of(rows, own) ==
    LET approved == {rows[i].cand : i \in {k \in own :
                        /\ "approved" \in df.columns
                        /\ rows[k].approved.k \in {"strict", "general"}}} \ {NoText}
    IN  IF approved # {} THEN Cardinality(approved)
        ELSE Cardinality({rows[i].cand : i \in own} \ {NoText})

\* one row per group (company, or job id when the table has the column),
\* each with the referral count of its group
one_row_per_group ==
    LET rows == left_rows
    IN  /\ out.raised = "no"
        /\ (company_rate_called \/ ~by_job)
              => /\ Col(out.rows, "company") = unique(Col(rows, "company"))
                 /\ \A j \in 1..Len(out.rows) :
                       out.rows[j].referrals =
                          referrals_of(rows, {i \in 1..Len(rows) :
                                                rows[i].company = out.rows[j].company})
        /\ (job_rate_called /\ by_job)
              => /\ Range(Col(out.rows, "job")) = Range(Col(rows, "job")) \ {NoText}
                 /\ \A j \in 1..Len(out.rows) :
                       out.rows[j].referrals =
                          referrals_of(rows, {i \in 1..Len(rows) :
                                                rows[i].job = out.rows[j].job})

\* C18 as stated: the referral count of a group is its number of distinct
\* candidates with an application-approved date, and its number of distinct
\* candidates when that is 0 or when the table has no such column; in that
\* case too the aggregator returns one row per group and raises nothing.
C18_ReferralFallback ==
    (company_rate_called \/ job_rate_called) => one_row_per_group

\* what of C18 the code does keep: the referral counts of a table that has
\* the application-approved column
C18_ReferralWithColumn ==
    ((company_rate_called \/ job_rate_called) /\ "approved" \in df.columns)
        => one_row_per_group

(***************************************************************************)
(* validate_data                                                           *)
(***************************************************************************)
\* a variant of missing_columns that names the first missing column only
missing_columns_first(t) ==
    LET all == {i \in 1..Len(required_columns) : required_columns[i] \notin t.columns}
    IN  IF all = {} THEN <<>>
        ELSE <<required_columns[CHOOSE i \in all : \A j \in all : i <= j]>>

\* [col for col in required_columns if col not in df.columns]
missing_columns(t) ==
    Keep(required_columns,
         [i \in 1..Len(required_columns) |-> required_columns[i] \notin t.columns])

\* df.duplicated().sum(): the rows equal, cell by cell of the columns the
\* table has, to a row above them
duplicated(t) ==
    LET cells(i) == restrict(t.rows[i], t.columns \cap raw_fields)
    IN  Count([i \in 1..Len(t.rows) |-> \E j \in 1..(i - 1) : cells(j) = cells(i)])

\* the values of a date column, nulls dropped, on which pd.to_datetime(val)
\* raises
invalid_dates(t, col) ==
    Count([i \in 1..Len(t.rows) |-> t.rows[i][col].k = "bad"])

\* the warnings of a table with its required columns and some row, in the
\* order the checks run
warnings_of(t) ==
    LET duplicates == duplicated(t)
        date_columns == <<"sub", "intv", "off">>
        date_warning(col) ==
            IF invalid_dates(t, col) > 0
            THEN <<[kind |-> "invalid dates", column |-> col,
                    n |-> invalid_dates(t, col)]>>
            ELSE <<>>
        invalid_interview_counts ==
            Count([i \in 1..Len(t.rows) |->
                     ~t.rows[i].cnt.isna /\ t.rows[i].cnt.v < 0])
        invalid_final_flags ==
            Count([i \in 1..Len(t.rows) |->
                     ~t.rows[i].flag.isna /\ t.rows[i].flag.v \notin {0, 1}])
    IN  (IF duplicates > 0
         THEN <<[kind |-> "duplicate rows", n |-> duplicates]>> ELSE <<>>)
        \o date_warning(date_columns[1])
        \o date_warning(date_columns[2])
        \o date_warning(date_columns[3])
        \o (IF invalid_interview_counts > 0
            THEN <<[kind |-> "negative interview counts",
                    n |-> invalid_interview_counts]>> ELSE <<>>)
        \o (IF invalid_final_flags > 0
            THEN <<[kind |-> "final flags other than 0 and 1",
                    n |-> invalid_final_flags]>> ELSE <<>>)

statistics_of(t) ==
    LET total_rows == Len(t.rows)
        filled(col) == Count([i \in 1..Len(t.rows) |-> t.rows[i][col].k # "nan"])
    IN  [total_rows |-> total_rows,
         unique_candidates |-> nunique(Col(t.rows, "cand")),
         unique_companies |-> nunique(Col(t.rows, "company")),
         data_completeness |-> [sub |-> percent(filled("sub"), total_rows),
                                intv |-> percent(filled("intv"), total_rows),
                                off |-> percent(filled("off"), total_rows)]]

\* utils.py validate_data; the statistics of a rejected table stay {}
validate_data(t) ==
    IF missing_columns(t) # <<>>
    THEN [is_valid |-> FALSE,
          errors |-> <<[kind |-> "missing required columns",
                        columns |-> missing_columns(t)]>>,
          warnings |-> <<>>, statistics |-> <<>>]
    ELSE IF Len(t.rows) = 0
    THEN [is_valid |-> FALSE,
          errors |-> <<[kind |-> "empty", columns |-> <<>>]>>,
          warnings |-> <<>>, statistics |-> <<>>]
    ELSE [is_valid |-> TRUE, errors |-> <<>>,
          warnings |-> warnings_of(t), statistics |-> statistics_of(t)]

\* validation_results = validate_data(df)
ValidateData ==
    /\ Called("validate_data", NoText, validate_data(df))
    /\ UNCHANGED <<df, df0, selected_companies, selected_months, format_inference, chat_history>>

\* The rows of the validation runs: a clean row; the same row with an
\* application-approved date; a row with an unparseable submission date, a
\* negative interview count and a final flag of 2; a row of another company
\* with a date in another format and no count and no flag.
ValidateRows ==
    { Row("c1", "Acme", <<Strict(2024, 1, 10), Strict(2024, 1, 20), NaN>>,
          Num(1), Num(0), "open", NaN, NoText),
      Row("c1", "Acme", <<Strict(2024, 1, 10), Strict(2024, 1, 20), NaN>>,
          Num(1), Num(0), "open", Strict(2024, 1, 5), NoText),
      Row("c2", "Acme", <<Bad, NaN, Strict(2024, 2, 25)>>,
          Num(-1), Num(2), NoText, NaN, NoText),
      Row("c1", "Beta", <<General(2024, 1, 10), NaN, NaN>>,
          NumNaN, NumNaN, "open", NaN, NoText) }

\* the columns of the validation runs: any of the required ones, and the
\* application-approved column or not
ValidateColumns ==
    {required \cup optional :
        required \in SUBSET Range(required_columns),
        optional \in {{}, {"approved"}}}

InitValidate ==
    /\ df0 \in {Table(rows, columns) :
                   rows \in Tables(ValidateRows, MaxRows),
                   columns \in ValidateColumns}
    /\ df = df0
    /\ selected_companies = List(<<ALL>>)
    /\ selected_months = List(<<AllMonths>>)
    /\ op = Idle
    /\ out = NoOutcome
    /\ prev_out = NoOutcome
    /\ format_inference = TRUE
    /\ chat_history = NoHistory

NextValidate == ValidateData

SpecValidate == InitValidate /\ [][NextValidate]_vars

(***************************************************************************)
(* Properties of validate_data                                             *)
(***************************************************************************)
validated == op.name = "validate_data"

lacking == Range(required_columns) \ df.columns

\* the findings that are advisory: a row equal to another on every column
\* of the table, an unparseable date, a negative interview count, a final
\* flag other than 0 and 1
advisory_kinds ==
    LET rows == df.rows
        same(i, j) == \A f \in df.columns \cap raw_fields : rows[i][f] = rows[j][f]
    IN  (IF \E i, j \in 1..Len(rows) : i < j /\ same(i, j)
         THEN {"duplicate rows"} ELSE {})
        \cup (IF \E i \in 1..Len(rows) : \E f \in {"sub", "intv", "off"} :
                    rows[i][f] = Bad
              THEN {"invalid dates"} ELSE {})
        \cup (IF \E i \in 1..Len(rows) : rows[i].cnt \in {Num(n) : n \in -3..-1}
              THEN {"negative interview counts"} ELSE {})
        \cup (IF \E i \in 1..Len(rows) :
                    rows[i].flag # NumNaN /\ rows[i].flag \notin {Num(0), Num(1)}
              THEN {"final flags other than 0 and 1"} ELSE {})

\* C19: validate_data reports is_valid = false exactly when a required
\* column is missing or the table has no rows; when columns are missing its
\* error lists every one of them; duplicate rows, unparseable dates, negative
\* interview counts and flags other than 0 and 1 add warnings and leave the
\* result valid.
C19_InvalidIffMissingOrEmpty ==
    validated =>
        /\ (out.is_valid = FALSE) <=> (lacking # {} \/ df.rows = <<>>)
        /\ lacking # {}
              => \E e \in Range(out.errors) : Range(e.columns) = lacking
        /\ (lacking = {} /\ df.rows # <<>>)
              => /\ out.is_valid = TRUE
                 /\ {w.kind : w \in Range(out.warnings)} = advisory_kinds

\* a table with all four advisory findings was validated, and one that
\* lacks several columns
C19_Witness ==
    /\ validated
    /\ out.is_valid = TRUE
    /\ Cardinality(advisory_kinds) = 4

C19_WitnessMissing ==
    /\ validated
    /\ Cardinality(lacking) = 3

(***************************************************************************)
(* main(): one run after another                                           *)
(***************************************************************************)
\* a variant of rejected under which main goes on whatever validate_data
\* reported
rejected_never(validation_results) == FALSE

\* `if not validation_results['is_valid']`: main shows the errors and returns
rejected(validation_results) == ~validation_results.is_valid

\* sorted(df['企業：企業名'].unique()) of the sidebar compares an empty cell
\* (a float) with a name (a str) and raises TypeError; main's except clause
\* reports it and returns
all_companies_sortable(t) ==
    \/ NoText \notin Range(Col(t.rows, "company"))
    \/ Cardinality(Range(Col(t.rows, "company"))) = 1

\* utils.py calculate_avg_recommendations_per_candidate
calculate_avg_recommendations_per_candidate(t, companies, months, infer) ==
    LET nothing == [avg_recommendations |-> Zero, total_candidates |-> 0,
                    total_recommendations |-> 0]
        f == apply_filters(t, companies, months, infer)
        total_candidates == nunique(Col(f.rows, "cand"))
        total_recommendations == Len(f.rows)
    IN  IF empty(t) \/ empty(f) THEN Returned(<<nothing>>)
        ELSE Returned(<<[avg_recommendations |->
                            IF total_candidates > 0
                            THEN [num |-> total_recommendations,
                                  den |-> total_candidates]
                            ELSE Zero,
                         total_candidates |-> total_candidates,
                         total_recommendations |-> total_recommendations]>>)

\* the calls of the six graph tabs in their order (lines 1009-1080), each on
\* the table alone
graph_tabs(t, infer) ==
    << [name |-> "calculate_company_introduction_to_contract_rate",
        outcome |-> calculate_company_introduction_to_contract_rate(t, None, None, infer)],
       [name |-> "calculate_job_introduction_to_contract_rate",
        outcome |-> calculate_job_introduction_to_contract_rate(t, None, None, infer)],
       [name |-> "calculate_avg_recommendations_per_candidate",
        outcome |-> calculate_avg_recommendations_per_candidate(t, None, None, infer)],
       [name |-> "calculate_interview_to_recommendation_leadtime",
        outcome |-> calculate_interview_to_recommendation_leadtime(t, None, None, infer)],
       [name |-> "calculate_interviews_by_ca",
        outcome |-> calculate_interviews_by_ca(t, None, None, infer)],
       [name |-> "calculate_scouter_performance",
        outcome |-> calculate_scouter_performance(t, None, None, infer)] >>

\* what main calls once validate_data has accepted the table
aggregations ==
    {"calculate_metrics", "main_funnel", "render_chat_interface"}
    \cup {"calculate_company_introduction_to_contract_rate",
          "calculate_job_introduction_to_contract_rate",
          "calculate_avg_recommendations_per_candidate",
          "calculate_interview_to_recommendation_leadtime",
          "calculate_interviews_by_ca",
          "calculate_scouter_performance"}

\* lines 649-658: the uploaded file is read and validated
MainValidate ==
    /\ op = Idle
    /\ ValidateData

\* lines 660-734: past the return of a rejected table, the sidebar
accepted ==
    /\ op.name = "validate_data"
    /\ ~rejected(out)
    /\ all_companies_sortable(df)

\* lines 685-709: the selection of the run
MainSelect ==
    /\ accepted
    /\ selected_companies = List(<<ALL>>)
    /\ selected_months = List(<<AllMonths>>)
    /\ \E s \in MetricSelections :
          /\ selected_companies' = s[1]
          /\ selected_months' = s[2]
    /\ UNCHANGED <<df, df0, op, out, prev_out, format_inference, chat_history>>

\* lines 737-749, when st.session_state has analysis_run (the button of this
\* run or of an earlier one set it)
MainMetrics ==
    /\ accepted
    /\ CalculateMetrics

\* lines 1000-1080: the graph tabs, up to the first call that raises
MainGraphs ==
    /\ op.name = "main_funnel"
    /\ out.raised = "no"
    /\ \E calls \in {graph_tabs(df, format_inference)} :
          LET raising == {k \in 1..Len(calls) : calls[k].outcome.raised # "no"}
              last == IF raising = {} THEN Len(calls)
                      ELSE CHOOSE k \in raising : \A j \in raising : k <= j
          IN  Called(calls[last].name, NoText, calls[last].outcome)
    /\ UNCHANGED <<df, df0, selected_companies, selected_months, format_inference, chat_history>>

\* lines 1206-1209: the chat tab, reached when tab1 has run to its end
MainChat ==
    /\ op.name = "calculate_scouter_performance"
    /\ out.raised = "no"
    /\ Called("render_chat_interface", NoText, Returned(<<>>))
    /\ UNCHANGED <<df, df0, selected_companies, selected_months, format_inference, chat_history>>

\* The rows of main's runs: a first interview; an offer; an offer of another
\* company; a row without company name.
MainRows ==
    { with_optional(Row("c1", "Acme",
                        <<Strict(2024, 1, 10), Strict(2024, 1, 20), NaN>>,
                        Num(1), Num(0), "open", Strict(2024, 1, 5), "s1"),
                    NaN, NoText, "j1"),
      with_optional(Row("c2", "Acme",
                        <<Strict(2024, 1, 10), Strict(2024, 2, 20), Strict(2024, 2, 25)>>,
                        Num(2), Num(1), "offer", NaN, "s1"),
                    NaN, NoText, "j1"),
      Row("c1", "Beta", <<Strict(2024, 1, 10), NaN, Strict(2024, 1, 15)>>,
          NumNaN, NumNaN, "offer", NaN, "s2"),
      Row("c3", NoText, <<Strict(2024, 1, 10), NaN, NaN>>,
          NumNaN, NumNaN, NoText, NaN, NoText) }

\* the columns of the uploaded files: every required column with and without
\* optional ones, and two files that lack required columns
MainColumns ==
    { Range(required_columns) \cup {"approved", "scout", "job"},
      Range(required_columns),
      (Range(required_columns) \ {"cand"}) \cup {"approved", "scout", "job"},
      {"company", "sub"} }

MainTables ==
    {Table(rows, columns) : rows \in Tables(MainRows, MaxRows),
                            columns \in MainColumns}

\* Streamlit runs main() anew on an interaction: the file in the uploader is
\* read again
Rerun ==
    /\ op # Idle
    /\ df' \in MainTables
    /\ df0' = df'
    /\ selected_companies' = List(<<ALL>>)
    /\ selected_months' = List(<<AllMonths>>)
    /\ op' = Idle
    /\ out' = NoOutcome
    /\ prev_out' = NoOutcome
    /\ UNCHANGED <<format_inference, chat_history>>

InitMain ==
    /\ df0 \in MainTables
    /\ df = df0
    /\ selected_companies = List(<<ALL>>)
    /\ selected_months = List(<<AllMonths>>)
    /\ op = Idle
    /\ out = NoOutcome
    /\ prev_out = NoOutcome
    /\ format_inference = TRUE
    /\ chat_history = NoHistory

NextMain ==
    \/ MainValidate
    \/ MainSelect
    \/ MainMetrics
    \/ MainFunnel
    \/ MainGraphs
    \/ MainChat
    \/ Rerun

SpecMain == InitMain /\ [][NextMain]_vars

(***************************************************************************)
(* Properties of main's runs                                               *)
(***************************************************************************)
\* the state validate_data leaves when it accepts the uploaded table
validated_valid ==
    /\ op.name = "validate_data"
    /\ out = validate_data(df)
    /\ out.is_valid = TRUE
    /\ df = df0

\* C20: in every run of main an aggregation (calculate_metrics, the funnel,
\* the specialized aggregators, the chat interface) is performed only after
\* validate_data has returned is_valid = true for the uploaded table in that
\* run: the first aggregation of a run follows the accepting validation, any
\* other follows an aggregation of the same run, and nothing follows a
\* rejected table but the next run.
C20_AggregationOnlyAfterValidation ==
    [][/\ op'.name \in aggregations
          => \/ validated_valid
             \/ op.name \in aggregations /\ df0' = df0
       /\ (op.name = "validate_data" /\ out.is_valid = FALSE)
          => op' = Idle]_vars

\* a run went through to the chat interface
C20_Witness ==
    /\ op.name = "render_chat_interface"
    /\ validate_data(df0).is_valid

\* a run that stopped at a table without its required columns
C20_WitnessRejected ==
    /\ op.name = "validate_data"
    /\ out.is_valid = FALSE
    /\ out.errors[1].kind = "missing required columns"

(***************************************************************************)
(* generate_alerts                                                         *)
(***************************************************************************)
\* rate < k and rate > k for a rate num/den and an integer k
rate_lt(r, k) == r.num < k * r.den

rate_gt(r, k) == r.num > k * r.den

\* the rows of metrics_df that satisfy a mask, in the order of metrics_df
selected_rows(metrics_df, mask) == Keep(metrics_df, mask)

\* the alerts one rule appends: one per selected row, in row order
rule_alerts(selected, type, title, priority) ==
    [i \in 1..Len(selected) |->
        [type |-> type, title |-> title, company |-> selected[i].company,
         priority |-> priority]]

\* priority_order = {'high': 0, 'medium': 1, 'low': 2}
priority_order == [high |-> 0, medium |-> 1, low |-> 2]

\* a sort that orders the alerts of one priority by company
sort_by_priority_then_company(alerts) ==
    LET by(p) == Keep(alerts, [i \in 1..Len(alerts) |-> alerts[i].priority = p])
        names(s) == unique(Col(s, "company"))
        grouped(s) ==
            LET RECURSIVE gather(_)
                gather(k) ==
                    IF k > Len(names(s)) THEN <<>>
                    ELSE Keep(s, [i \in 1..Len(s) |-> s[i].company = names(s)[k]])
                         \o gather(k + 1)
            IN  gather(1)
    IN  grouped(by("high")) \o grouped(by("medium")) \o grouped(by("low"))

\* alerts.sort(key=lambda x: priority_order[x['priority']]): list.sort is
\* stable, so the alerts of one priority keep their order
sort_by_priority(alerts) ==
    LET by(p) == Keep(alerts, [i \in 1..Len(alerts) |-> alerts[i].priority = p])
    IN  by("high") \o by("medium") \o by("low")

\* rule 5: (書類提出数 > 0) & (1次面接数 > 書類提出数)
data_anomalies(metrics_df) ==
    LET anomalous(r) == r.submissions > 0 /\ r.first_interviews > r.submissions
    IN  selected_rows(metrics_df, [i \in 1..Len(metrics_df) |-> anomalous(metrics_df[i])])

\* utils.py generate_alerts
generate_alerts(metrics_df) ==
    LET low_success(r) == rate_lt(r.offer_rate, 5)
        slow(r) == r.avg_cycle_time > 60
        low_document(r) == r.submissions > 5 /\ rate_lt(r.doc_pass_rate, 10)
        high_performer(r) == rate_gt(r.offer_rate, 30) /\ r.offers > 2
    IN  IF metrics_df = <<>> THEN <<>>
        ELSE sort_by_priority(
                 rule_alerts(selected_rows(metrics_df, [i \in 1..Len(metrics_df) |-> low_success(metrics_df[i])]),
                             "danger", "low offer rate", "high")
              \o rule_alerts(selected_rows(metrics_df, [i \in 1..Len(metrics_df) |-> slow(metrics_df[i])]),
                             "warning", "long cycle time", "medium")
              \o rule_alerts(selected_rows(metrics_df, [i \in 1..Len(metrics_df) |-> low_document(metrics_df[i])]),
                             "warning", "low document pass rate", "medium")
              \o rule_alerts(selected_rows(metrics_df, [i \in 1..Len(metrics_df) |-> high_performer(metrics_df[i])]),
                             "success", "high performance", "low")
              \o rule_alerts(data_anomalies(metrics_df),
                             "info", "data anomaly", "low"))

(***************************************************************************)
(* generate_recommendations                                                *)
(***************************************************************************)
\* a > b for two fractions num/den
greater_rate(a, b) == a.num * b.den > b.num * a.den

\* DataFrame.nlargest(n, column): the n rows with the largest values of the
\* column (values[i] is the value of rows[i]), largest first, rows of equal
\* value in their order (keep='first')
nlargest(n, rows, values) ==
    LET before(i) == {j \in 1..Len(rows) :
                         \/ greater_rate(values[j], values[i])
                         \/ ~greater_rate(values[i], values[j]) /\ j < i}
        kept == IF Len(rows) < n THEN Len(rows) ELSE n
    IN  [k \in 1..kept |->
            rows[CHOOSE i \in 1..Len(rows) : Cardinality(before(i)) = k - 1]]

\* the first three rows of metrics_df
top_performers_first_rows(metrics_df) ==
    SubSeq(metrics_df, 1, IF Len(metrics_df) < 3 THEN Len(metrics_df) ELSE 3)

\* metrics_df.nlargest(3, '内定率')
top_performers(metrics_df) ==
    nlargest(3, metrics_df, Col(metrics_df, "offer_rate"))

\* one recommendation: its category and its target companies (title,
\* description and the four actions are fixed texts of the category)
bucket(category, targets) ==
    IF targets = <<>> THEN <<>>
    ELSE <<[category |-> category, target_companies |-> Col(targets, "company")]>>

\* utils.py generate_recommendations
generate_recommendations(metrics_df) ==
    LET low_doc_pass_rate(r) == rate_lt(r.doc_pass_rate, 20)
        low_interview_pass_rate(r) == rate_lt(r.first_pass_rate, 30)
        slow_companies(r) == r.avg_cycle_time > 45
    IN  IF metrics_df = <<>> THEN <<>>
        ELSE bucket("documents", selected_rows(metrics_df, [i \in 1..Len(metrics_df) |-> low_doc_pass_rate(metrics_df[i])]))
          \o bucket("interviews", selected_rows(metrics_df, [i \in 1..Len(metrics_df) |-> low_interview_pass_rate(metrics_df[i])]))
          \o bucket("efficiency", selected_rows(metrics_df, [i \in 1..Len(metrics_df) |-> slow_companies(metrics_df[i])]))
          \o bucket("success", top_performers(metrics_df))

(***************************************************************************)
(* create_advanced_dashboard, generate_insights, export_summary_report     *)
(***************************************************************************)
\* the number of companies the dashboard keeps (nlargest(10, 'スコア'))
TopN == 10

\* f"{x:.1f}": the tenths of x = num/den >= 0 rounded to one decimal, a tie
\* going to the even digit (a tie is a dyadic value, which the float holds
\* exactly)
format_1f(x) ==
    LET twice == 20 * x.num
        q == twice \div (2 * x.den)
        rest == twice % (2 * x.den)
    IN  IF rest > x.den \/ (rest = x.den /\ q % 2 = 1) THEN q + 1 ELSE q

\* a ranking by the number of offers alone
score_by_offers(r) == [num |-> r.offers, den |-> 1]

\* スコア = 内定数 * 0.7 + 内定率 * 0.3, as the fraction
\* (7 * offers * den + 3 * num) / (10 * den) for the offer rate num/den
score(r) ==
    [num |-> 7 * r.offers * r.offer_rate.den + 3 * r.offer_rate.num,
     den |-> 10 * r.offer_rate.den]

\* metrics_df['スコア'] = ...: the column is assigned to the argument itself
with_score(metrics_df) ==
    [i \in 1..Len(metrics_df) |->
        [f \in DOMAIN metrics_df[i] \cup {"score"} |->
            IF f = "score" THEN score(metrics_df[i]) ELSE metrics_df[i][f]]]

\* app.py create_advanced_dashboard, up to the selection of the companies
\* its four charts show: the metrics_df as the call leaves it, and
\* top_companies
create_advanced_dashboard(metrics_df) ==
    IF metrics_df = <<>>
    THEN [metrics_df |-> metrics_df, top_companies |-> <<>>]
    ELSE LET scored == with_score(metrics_df)
         IN  [metrics_df |-> scored,
              top_companies |-> nlargest(TopN, scored, Col(scored, "score"))]

\* the sum of a column of counts
total(metrics_df, f) ==
    LET RECURSIVE upto(_)
        upto(k) == IF k = 0 THEN 0 ELSE upto(k - 1) + metrics_df[k][f]
    IN  upto(Len(metrics_df))

\* generate_insights: overall_rate = total_offers / total_applications * 100
\* with total_applications = metrics_df['書類提出数'].sum(); 0 without
\* applications
insights_overall_rate(metrics_df) ==
    rate(total(metrics_df, "offers"), total(metrics_df, "submissions"))

\* app.py generate_insights; each insight with the values its text carries
generate_insights(metrics_df) ==
    LET best_company == nlargest(1, metrics_df, Col(metrics_df, "offer_rate"))[1]
        low(r) == rate_lt(r.offer_rate, 10)
        slow(r) == r.avg_cycle_time > 30
        low_performance == selected_rows(metrics_df, [i \in 1..Len(metrics_df) |-> low(metrics_df[i])])
        slow_companies == selected_rows(metrics_df, [i \in 1..Len(metrics_df) |-> slow(metrics_df[i])])
    IN  IF metrics_df = <<>> THEN <<>>
        ELSE <<[type |-> "success", title |-> "best performer",
                company |-> best_company.company,
                value |-> format_1f(best_company.offer_rate)]>>
          \o (IF low_performance # <<>>
              THEN <<[type |-> "warning", title |-> "room for improvement",
                      companies |-> Len(low_performance)]>>
              ELSE <<>>)
          \o (IF slow_companies # <<>>
              THEN <<[type |-> "info", title |-> "cycle time",
                      companies |-> Len(slow_companies)]>>
              ELSE <<>>)
          \o <<[type |-> "info", title |-> "overall statistics",
                total_applications |-> total(metrics_df, "submissions"),
                total_offers |-> total(metrics_df, "offers"),
                overall_rate |-> format_1f(insights_overall_rate(metrics_df))]>>

\* utils.py export_summary_report: the values its report carries, section by
\* section; an empty metrics_df gives the error text
export_summary_report(metrics_df, alerts, recommendations) ==
    IF metrics_df = <<>> THEN [error |-> "empty"]
    ELSE
      LET total_recommendations == total(metrics_df, "recommendations")
          total_offers == total(metrics_df, "offers")
          top_3 == nlargest(IF Len(metrics_df) < 3 THEN Len(metrics_df) ELSE 3,
                            metrics_df, Col(metrics_df, "offer_rate"))
          high(a) == a.priority = "high"
          first_three(s) == SubSeq(s, 1, IF Len(s) < 3 THEN Len(s) ELSE 3)
      IN  [error |-> "no",
           total_companies |-> Len(metrics_df),
           total_recommendations |-> total_recommendations,
           total_applications |-> total(metrics_df, "submissions"),
           total_offers |-> total_offers,
           overall_rate |-> format_1f(rate(total_offers, total_recommendations)),
           top_performers |->
               [i \in 1..Len(top_3) |->
                   [company |-> top_3[i].company,
                    offer_rate |-> format_1f(top_3[i].offer_rate)]],
           alerts |-> selected_rows(alerts, [i \in 1..Len(alerts) |-> high(alerts[i])]),
           recommendations |->
               [i \in 1..Len(recommendations) |->
                   [category |-> recommendations[i].category,
                    companies |-> first_three(recommendations[i].target_companies),
                    more |-> Len(recommendations[i].target_companies) > 3]]]

(***************************************************************************)
(* The generators over the metrics rows                                    *)
(***************************************************************************)
\* The application rows of the generator runs, by candidate: submitted and
\* no more; a first interview; past the first interview; an offer 15, 50 and
\* 70 days after the submission; a first interview without submission date.
ReportRow(kind, cand, company) ==
    CASE kind = "submitted" ->
            Row(cand, company, <<Strict(2024, 1, 10), NaN, NaN>>,
                NumNaN, NumNaN, "open", NaN, NoText)
      [] kind = "interviewed" ->
            Row(cand, company, <<Strict(2024, 1, 10), Strict(2024, 1, 20), NaN>>,
                Num(1), Num(0), "open", NaN, NoText)
      [] kind = "passed" ->
            Row(cand, company, <<Strict(2024, 1, 10), Strict(2024, 1, 20), NaN>>,
                Num(2), Num(0), "open", NaN, NoText)
      [] kind = "offered" ->
            Row(cand, company,
                <<Strict(2024, 1, 10), Strict(2024, 1, 20), Strict(2024, 1, 25)>>,
                Num(2), Num(1), "offer", NaN, NoText)
      [] kind = "offered late" ->
            Row(cand, company,
                <<Strict(2024, 1, 10), Strict(2024, 1, 20), Strict(2024, 2, 29)>>,
                Num(2), Num(1), "offer", NaN, NoText)
      [] kind = "offered very late" ->
            Row(cand, company,
                <<Strict(2024, 1, 10), Strict(2024, 1, 20), Strict(2024, 3, 20)>>,
                Num(2), Num(1), "offer", NaN, NoText)
      [] kind = "walk-in" ->
            Row(cand, company, <<NaN, Strict(2024, 1, 20), NaN>>,
                Num(1), Num(0), NoText, NaN, NoText)

\* The applications of one company, one candidate each.
\* six submissions and nothing more
Failing == <<"submitted", "submitted", "submitted", "submitted", "submitted", "submitted">>

\* three quick offers
Star == <<"offered", "offered", "offered">>

\* a very late offer beside three first interviews, two without submission
Slow == <<"offered very late", "interviewed", "walk-in", "walk-in">>

\* a late offer beside a passed interview
Late == <<"offered late", "passed">>

\* a submission and two first interviews without submission
Anomalous == <<"submitted", "walk-in", "walk-in">>

\* one first interview without submission
WalkIn == <<"walk-in">>

\* three offers among eight submissions
Broad == <<"offered", "offered", "offered", "submitted", "submitted",
           "submitted", "submitted", "submitted">>

\* three quick offers and four first interviews without submission
Busy == <<"offered", "offered", "offered", "walk-in", "walk-in", "walk-in",
          "walk-in">>

ReportProfiles == {Failing, Star, Slow, Late, Anomalous, WalkIn, Broad, Busy}

candidates == <<"c1", "c2", "c3", "c4", "c5", "c6", "c7", "c8">>

company_names ==
    <<"Acme", "Beta", "Gamma", "Delta", "Epsilon", "Zeta", "Eta", "Theta",
      "Iota", "Kappa", "Lambda", "Mu">>

block(profile, company) ==
    [i \in 1..Len(profile) |-> ReportRow(profile[i], candidates[i], company)]

\* the number of companies of the tables that are enumerated
MaxCompanies == 2

RECURSIVE ReportTables(_)
\* the tables of at most n companies, each with the applications of one
\* profile
ReportTables(n) ==
    IF n = 0 THEN {<<>>}
    ELSE LET fewer == ReportTables(n - 1)
         IN  fewer \cup {t \o block(p, company_names[n]) :
                            t \in {x \in fewer : n = 1 \/ x # <<>>},
                            p \in ReportProfiles}

RECURSIVE blocks(_, _)
\* the table of the companies with the profiles of the list, from the k-th on
blocks(profiles, k) ==
    IF k > Len(profiles) THEN <<>>
    ELSE block(profiles[k], company_names[k]) \o blocks(profiles, k + 1)

\* tables of more companies than a top-3 and a top-10 selection keep
WideTables ==
    { blocks(<<Failing, Late, Star, Slow>>, 1),
      blocks(<<Late, Broad, WalkIn, Star, Failing>>, 1),
      blocks(<<WalkIn, Failing, Late, Star, Broad, Slow, Anomalous, Late, Star,
               Broad, Slow, WalkIn>>, 1),
      blocks(<<Broad, Late, Slow, Star, WalkIn, Failing, Anomalous, Slow, Late,
               Broad, Star>>, 1) }

\* the metrics_df at hand: what calculate_metrics returned, handed on from
\* one generator to the next
has_metrics ==
    \/ op.name = "calculate_metrics" /\ out.raised = "no"
    \/ op.name \in {"generate_alerts", "generate_recommendations",
                    "generate_insights", "export_summary_report",
                    "create_advanced_dashboard"}

metrics_df == IF op.name = "calculate_metrics" THEN out.rows ELSE op.arg

\* alerts = generate_alerts(metrics_df)
GenerateAlerts ==
    /\ has_metrics
    /\ Called("generate_alerts", metrics_df, generate_alerts(metrics_df))
    /\ UNCHANGED <<df, df0, selected_companies, selected_months, format_inference, chat_history>>

\* recommendations = generate_recommendations(metrics_df)
GenerateRecommendations ==
    /\ has_metrics
    /\ Called("generate_recommendations", metrics_df,
              generate_recommendations(metrics_df))
    /\ UNCHANGED <<df, df0, selected_companies, selected_months, format_inference, chat_history>>

\* insights = generate_insights(metrics_df)
GenerateInsights ==
    /\ has_metrics
    /\ Called("generate_insights", metrics_df, generate_insights(metrics_df))
    /\ UNCHANGED <<df, df0, selected_companies, selected_months, format_inference, chat_history>>

\* dashboard_fig = create_advanced_dashboard(metrics_df): op.arg is the
\* metrics_df as the call leaves it to the consumers after it
CreateAdvancedDashboard ==
    /\ has_metrics
    /\ \E r \in {create_advanced_dashboard(metrics_df)} :
          Called("create_advanced_dashboard", r.metrics_df, r.top_companies)
    /\ UNCHANGED <<df, df0, selected_companies, selected_months, format_inference, chat_history>>

\* export_summary_report(metrics_df, alerts, recommendations) with the
\* alerts and the recommendations of the same metrics_df
ExportSummaryReport ==
    /\ has_metrics
    /\ Called("export_summary_report", metrics_df,
              export_summary_report(metrics_df, generate_alerts(metrics_df),
                                    generate_recommendations(metrics_df)))
    /\ UNCHANGED <<df, df0, selected_companies, selected_months, format_inference, chat_history>>

InitReports ==
    /\ df0 \in {Uploaded(rows, {}) :
                   rows \in ReportTables(MaxCompanies) \cup WideTables}
    /\ df = df0
    /\ selected_companies = List(<<ALL>>)
    /\ selected_months = List(<<AllMonths>>)
    /\ op = Idle
    /\ out = NoOutcome
    /\ prev_out = NoOutcome
    /\ format_inference = TRUE
    /\ chat_history = NoHistory

\* metrics_df = calculate_metrics(df, selected_companies, selected_months),
\* once in a run
ReportMetrics ==
    /\ op = Idle
    /\ CalculateMetrics

NextReports ==
    \/ ReportMetrics
    \/ GenerateAlerts
    \/ GenerateRecommendations
    \/ GenerateInsights
    \/ CreateAdvancedDashboard
    \/ ExportSummaryReport

SpecReports == InitReports /\ [][NextReports]_vars

(***************************************************************************)
(* Properties of generate_alerts                                           *)
(***************************************************************************)
alerted == op.name = "generate_alerts"

\* the place of a company in the metrics rows handed to the generator
company_place(name) ==
    CHOOSE i \in 1..Len(op.arg) : op.arg[i].company = name

\* the place of the rule that produces the alerts of a title
rule_place(title) ==
    CASE title = "low offer rate" -> 1
      [] title = "long cycle time" -> 2
      [] title = "low document pass rate" -> 3
      [] title = "high performance" -> 4
      [] title = "data anomaly" -> 5

\* C21: in the list generate_alerts returns every high-priority alert
\* precedes every medium-priority one and every medium every low-priority
\* one, and the alerts of one priority are in rule order and, within a rule,
\* in company order.
C21_AlertsByPriorityStable ==
    alerted =>
        \A i, j \in 1..Len(out) :
            i < j =>
               /\ priority_order[out[i].priority] <= priority_order[out[j].priority]
               /\ out[i].priority = out[j].priority
                     => \/ rule_place(out[i].title) < rule_place(out[j].title)
                        \/ /\ rule_place(out[i].title) = rule_place(out[j].title)
                           /\ company_place(out[i].company) < company_place(out[j].company)

\* two alerts of one priority, the one of the later company from the earlier
\* rule, below a high-priority alert
C21_Witness ==
    /\ alerted
    /\ \E i, j \in 1..Len(out) :
          /\ i < j
          /\ out[i].priority = "medium" /\ out[j].priority = "medium"
          /\ company_place(out[i].company) > company_place(out[j].company)
    /\ \E i \in 1..Len(out) : out[i].priority = "high"
    /\ \E i \in 1..Len(out) : out[i].priority = "low"

\* C22 as stated: a company has a data-anomaly alert exactly when its
\* first-round interview count is greater than its submission count, whatever
\* the other rules yield for it.
C22_AnomalyIffMoreInterviews ==
    alerted =>
        \A k \in 1..Len(op.arg) :
            (\E i \in 1..Len(out) :
                 /\ out[i].title = "data anomaly"
                 /\ out[i].company = op.arg[k].company
                 /\ out[i].priority = "low" /\ out[i].type = "info")
            <=> op.arg[k].first_interviews > op.arg[k].submissions

\* what of C22 the code keeps: the alert goes to the companies with a
\* submission and more first-round interviews than submissions
C22_AnomalyOfSubmitting ==
    alerted =>
        \A k \in 1..Len(op.arg) :
            (\E i \in 1..Len(out) :
                 /\ out[i].title = "data anomaly"
                 /\ out[i].company = op.arg[k].company)
            <=> /\ op.arg[k].submissions > 0
                /\ op.arg[k].first_interviews > op.arg[k].submissions

(***************************************************************************)
(* Properties of generate_recommendations                                  *)
(***************************************************************************)
recommended == op.name = "generate_recommendations"

\* the target companies of the bucket of a category; {} when it is omitted
targets_of(category) ==
    UNION {Range(out[i].target_companies) :
              i \in {k \in 1..Len(out) : out[k].category = category}}

companies_where(test(_)) ==
    {op.arg[k].company : k \in {i \in 1..Len(op.arg) : test(op.arg[i])}}

category_place == [documents |-> 1, interviews |-> 2, efficiency |-> 3, success |-> 4]

\* C23: for metrics rows that are not empty generate_recommendations
\* returns, in this order, the buckets 'improve documents' (the companies
\* with document pass rate < 20), 'interview coaching' (first-round pass
\* rate < 30), 'speed up process' (cycle time > 45), each omitted when it
\* has no target, and always 'replicate success', whose targets are the
\* min(3, n) companies with the highest offer rate.
C23_RecommendationBuckets ==
    (recommended /\ op.arg # <<>>) =>
        LET low_doc(r) == r.doc_pass_rate.num * 1 < 20 * r.doc_pass_rate.den
            low_first(r) == r.first_pass_rate.num * 1 < 30 * r.first_pass_rate.den
            slow(r) == r.avg_cycle_time > 45
            n == Len(op.arg)
            best == targets_of("success")
        IN  /\ \A i, j \in 1..Len(out) :
                  i < j => category_place[out[i].category]
                             < category_place[out[j].category]
            /\ \A i \in 1..Len(out) : out[i].target_companies # <<>>
            /\ targets_of("documents") = companies_where(low_doc)
            /\ targets_of("interviews") = companies_where(low_first)
            /\ targets_of("efficiency") = companies_where(slow)
            /\ out[Len(out)].category = "success"
            /\ Cardinality(best) = IF n < 3 THEN n ELSE 3
            /\ \A a, b \in 1..n :
                  (op.arg[a].company \in best /\ op.arg[b].company \notin best)
                     => op.arg[a].offer_rate.num * op.arg[b].offer_rate.den
                          >= op.arg[b].offer_rate.num * op.arg[a].offer_rate.den

\* four buckets for more than three companies, the first of which is not one
\* of the best three
C23_Witness ==
    /\ recommended
    /\ Len(op.arg) > 3
    /\ Len(out) = 4
    /\ op.arg[1].company \notin targets_of("success")

(***************************************************************************)
(* Properties of the top-N selection and of the overall rate               *)
(***************************************************************************)
dashboard_called == op.name = "create_advanced_dashboard"

\* ten times the composite score offers * 0.7 + offer_rate * 0.3 of a row a
\* is at least that of a row b
scores_at_least(a, b) ==
    (7 * a.offers * a.offer_rate.den + 3 * a.offer_rate.num) * b.offer_rate.den
      >= (7 * b.offers * b.offer_rate.den + 3 * b.offer_rate.num) * a.offer_rate.den

\* C24: the top-N selection of the dashboard returns the min(N, n) companies
\* with the largest composite score offers * 0.7 + offer_rate * 0.3, largest
\* first, so that a company with a higher score ranks above one with more
\* offers and a lower score (offer rate 50 with 1 offer, score 15.7, above
\* offer rate 40 with 3 offers, score 14.1).
C24_TopNByCompositeScore ==
    dashboard_called =>
        LET n == Len(op.arg)
            chosen == {out[i].company : i \in 1..Len(out)}
        IN  /\ Len(out) = IF n < TopN THEN n ELSE TopN
            /\ Cardinality(chosen) = Len(out)
            /\ chosen \subseteq {op.arg[k].company : k \in 1..n}
            /\ \A i, j \in 1..Len(out) : i < j => scores_at_least(out[i], out[j])
            /\ \A i \in 1..Len(out) : \A k \in 1..n :
                  op.arg[k].company \notin chosen => scores_at_least(out[i], op.arg[k])
            /\ greater_rate(score([offers |-> 1, offer_rate |-> [num |-> 50, den |-> 1]]),
                            score([offers |-> 3, offer_rate |-> [num |-> 40, den |-> 1]]))

\* more companies than the selection keeps, and a company ranked above one
\* with more offers
C24_Witness ==
    /\ dashboard_called
    /\ Len(op.arg) > TopN
    /\ Len(out) = TopN
    /\ \E i, j \in 1..Len(out) : i < j /\ out[i].offers < out[j].offers

\* the fields of a row of calculate_metrics
metric_fields ==
    {"company", "recommendations", "submissions", "doc_results", "doc_pass_rate",
     "first_interviews", "first_pass_rate", "final_interviews", "offers",
     "offer_rate", "avg_cycle_time"}

\* C25 as stated: the composite score is used inside the top-N selection
\* only: once create_advanced_dashboard has returned, the metrics rows handed
\* to the later consumers have exactly the fields calculate_metrics produced,
\* and no score field.
C25_NoScoreFieldLeft ==
    dashboard_called =>
        \A i \in 1..Len(op.arg) : DOMAIN op.arg[i] = metric_fields

\* what of C25 the code keeps: the fields calculate_metrics produced are
\* handed on with the values they had
C25_MetricFieldsKept ==
    dashboard_called =>
        /\ metrics_with(selected_companies, selected_months).rows
             = [i \in 1..Len(op.arg) |-> restrict(op.arg[i], metric_fields)]
        /\ \A i \in 1..Len(op.arg) : DOMAIN op.arg[i] \subseteq metric_fields \cup {"score"}

insights_called == op.name = "generate_insights"

report_called == op.name = "export_summary_report"

\* the sum of a field over the metrics rows handed to the generator
sum_of(f) ==
    LET RECURSIVE upto(_)
        upto(k) == IF k = 0 THEN 0 ELSE upto(k - 1) + op.arg[k][f]
    IN  upto(Len(op.arg))

\* offers over recommendations, all companies together, times 100, to one
\* decimal; 0 without recommendations
overall_offer_rate ==
    IF sum_of("recommendations") > 0
    THEN format_1f([num |-> 100 * sum_of("offers"), den |-> sum_of("recommendations")])
    ELSE 0

\* C26 as stated: the global offer rate generate_insights reports is the sum
\* of the offers of all companies over the sum of their recommendations,
\* times 100, and 0 when there is no recommendation: the offer rate as the
\* metrics row defines it, and the value export_summary_report reports for
\* the same rows.
C26_InsightsOverallRate ==
    (insights_called /\ op.arg # <<>>)
        => out[Len(out)].overall_rate = overall_offer_rate

\* what holds of export_summary_report: its overall rate is taken over the
\* recommendations
C26_ReportOverallRate ==
    (report_called /\ op.arg # <<>>)
        => out.overall_rate = overall_offer_rate

(***************************************************************************)
(* apply_filters on its own output                                         *)
(***************************************************************************)
\* apply_filters(apply_filters(df, selected_companies, selected_months),
\* selected_companies, selected_months): what the company aggregator does to
\* the table the job aggregator hands it (utils.py 756-762)
ApplyFiltersTwice ==
    /\ op' = [name |-> "apply_filters twice", arg |-> NoText]
    /\ out' = Returned(apply_filters(
                           apply_filters(df, selected_companies, selected_months,
                                         format_inference),
                           selected_companies, selected_months, format_inference))
    /\ prev_out' = NoOutcome
    /\ UNCHANGED <<df, df0, selected_companies, selected_months, format_inference, chat_history>>

\* the number of rows of the tables filtered twice
MaxTwiceRows == 3

\* The rows of these runs: a submission in January; a submission in
\* February written in another format, with an interview in February; a
\* submission in February; a submission in February at another company; no
\* date.
TwiceRows ==
    { Row("c1", "Acme", <<Strict(2024, 1, 10), NaN, NaN>>,
          NumNaN, NumNaN, "open", NaN, NoText),
      Row("c2", "Acme", <<General(2024, 2, 10), Strict(2024, 2, 20), NaN>>,
          Num(1), Num(0), "open", NaN, NoText),
      Row("c3", "Acme", <<Strict(2024, 2, 12), NaN, NaN>>,
          NumNaN, NumNaN, "open", NaN, NoText),
      Row("c4", "Beta", <<Strict(2024, 2, 5), NaN, NaN>>,
          NumNaN, NumNaN, "open", NaN, NoText),
      Row("c5", "Acme", <<NaN, NaN, NaN>>,
          NumNaN, NumNaN, NoText, NaN, NoText) }

TwiceSelections ==
    { <<List(<<"Acme">>), List(<<Feb24>>)>>,
      <<List(<<ALL>>), List(<<Feb24>>)>>,
      <<List(<<"Acme">>), List(<<AllMonths>>)>> }

InitTwice ==
    /\ df0 \in {Uploaded(rows, {"approved"}) : rows \in Tables(TwiceRows, MaxTwiceRows)}
    /\ df = df0
    /\ selected_companies = List(<<ALL>>)
    /\ selected_months = List(<<AllMonths>>)
    /\ op = Idle
    /\ out = NoOutcome
    /\ prev_out = NoOutcome
    /\ format_inference \in BOOLEAN
    /\ chat_history = NoHistory

NextTwice ==
    \/ SelectFilters(TwiceSelections)
    \/ ApplyFiltersTwice
    \/ JobContractRate

SpecTwice == InitTwice /\ [][NextTwice]_vars

(***************************************************************************)
(* Properties of apply_filters on its own output                           *)
(***************************************************************************)
applied_twice == op.name = "apply_filters twice"

\* the company aggregator on the table as it was uploaded
company_rates_of_raw ==
    calculate_company_introduction_to_contract_rate(
        df, selected_companies, selected_months, format_inference)

idempotent ==
    /\ applied_twice
          => out.rows.rows = apply_filters(df, selected_companies, selected_months,
                                           format_inference).rows
    /\ (job_rate_called /\ ~by_job) => out = company_rates_of_raw

\* C27 as stated: apply_filters is idempotent: on its own output and with
\* the same criteria it returns the rows it returned; so the job aggregator
\* without a job id column, which hands the filtered table to the company
\* aggregator that filters it again, returns what the company aggregator
\* returns for the table itself.
C27_ApplyFiltersIdempotent == idempotent

\* what of C27 holds: in a build of pandas that parses each date on its own
\* the second application returns the rows of the first
C27_IdempotentWithoutInference == ~format_inference => idempotent

(***************************************************************************)
(* The three filters                                                       *)
(***************************************************************************)
\* app.py calculate_metrics, lines 144-165: the rows the inline filter
\* leaves to the aggregation, or the exception of the month loop
inline_filter(t, companies, months) ==
    IF empty(t) THEN Returned(<<>>)
    ELSE LET p == parsed_by_parse_date(t.rows)
             w == with_parsed(t.rows, p)
         IN  IF month_filter_active(months) /\ ~dt_accessible(p)
             THEN Raised("AttributeError")
             ELSE LET kept == filter_rows(w, companies, months)
                  IN  Returned([i \in 1..Len(kept) |->
                                   restrict(kept[i], raw_fields)])

\* the rows apply_filters selects for the table and selection of this run
selected_by_apply_filters ==
    Returned(apply_filters(df, selected_companies, selected_months,
                           format_inference).rows)

\* the rows calculate_metrics selects
selected_by_calculate_metrics ==
    inline_filter(df, selected_companies, selected_months)

\* the rows main selects for the funnel of 全体
selected_by_main ==
    LET f == main_funnel(df, selected_companies, selected_months, Whole)
    IN  [raised |-> f.raised, rows |-> f.rows]

\* C28 as stated: for every table and selection (an empty company selection
\* and the sentinel among explicit values included) the inline filter of
\* calculate_metrics, apply_filters and main's filter before the funnel of
\* 全体 select the same rows.
C28_ThreeFiltersAgree ==
    funnelled =>
        /\ out.raised = "no"
        /\ out.rows = selected_by_main.rows
        /\ selected_by_calculate_metrics = selected_by_main
        /\ selected_by_apply_filters = selected_by_main

\* what of C28 holds: when a company is selected, the inline filter of
\* calculate_metrics (by company, then by month) and main's filter (by
\* month, then by company) select the same rows; both read the dates with
\* parse_date
C28_InlineAndMainAgree ==
    (funnelled /\ selected_companies.items # <<>>) =>
        /\ out.raised = "no"
        /\ out.rows = selected_by_main.rows
        /\ selected_by_calculate_metrics = selected_by_main

\* the empty company selection: calculate_metrics and apply_filters keep
\* every company, main keeps none
C28_EmptySelectionAgrees ==
    (funnelled /\ selected_companies.items = <<>>) =>
        /\ selected_by_calculate_metrics = selected_by_main
        /\ selected_by_apply_filters = selected_by_main

\* the dates: apply_filters reads them with pd.to_datetime, the other two
\* with parse_date
C28_ApplyFiltersAgreesWhenSelected ==
    (funnelled /\ selected_companies.items # <<>>) =>
        selected_by_apply_filters = selected_by_main

(***************************************************************************)
(* The interview stages of the funnel                                      *)
(***************************************************************************)
\* the number of rows of the tables of the funnel runs
MaxFunnelRows == 2

\* The rows of these runs: a submission with or without an interview date,
\* an interview round that is empty, 0, 1 or 2, and a final-interview flag
\* that is empty, 0 or 1; and one row of another company.
FunnelRows ==
    { Row("c1", "Acme", <<Strict(2024, 1, 10), intv, NaN>>, cnt, flag,
          "open", NaN, NoText) :
        intv \in {NaN, Strict(2024, 1, 20)},
        cnt \in {NumNaN, Num(0), Num(1), Num(2)},
        flag \in {NumNaN, Num(0), Num(1)} }
    \cup
    { Row("c2", "Beta", <<Strict(2024, 1, 10), Strict(2024, 1, 20), NaN>>,
          Num(1), Num(0), "open", NaN, NoText) }

InitFunnel ==
    /\ df0 \in {Uploaded(rows, {}) : rows \in Tables(FunnelRows, MaxFunnelRows)}
    /\ df = df0
    /\ selected_companies = List(<<ALL>>)
    /\ selected_months = List(<<AllMonths>>)
    /\ op = Idle
    /\ out = NoOutcome
    /\ prev_out = NoOutcome
    /\ format_inference = TRUE
    /\ chat_history = NoHistory

NextFunnel == ConversionFunnel

SpecFunnel == InitFunnel /\ [][NextFunnel]_vars

(***************************************************************************)
(* Properties of the interview stages                                      *)
(***************************************************************************)
\* the emitted pass rate between two stages is at most 100 (when emitted)
at_most_100(r, from, to) ==
    \A j \in 1..Len(r) :
        (r[j].from = from /\ r[j].to = to) => ~rate_gt(r[j].rate, 100)

\* C29: the interview stages of the funnel are subsets of the rows with an
\* interview date: second-plus <= first interview <= document pass, and
\* final interview <= document pass; so the pass rates from document pass
\* to first interview and from first interview to second-plus never exceed
\* 100.
C29_InterviewStagesNested ==
    funnel_called
        => LET f == out.funnel.funnel
               r == out.funnel.conversion_rates
           IN  /\ count_in(f, "second_plus_interview") <= count_in(f, "first_interview")
               /\ count_in(f, "first_interview") <= count_in(f, "document_pass")
               /\ count_in(f, "final_interview") <= count_in(f, "document_pass")
               /\ at_most_100(r, "document_pass", "first_interview")
               /\ at_most_100(r, "first_interview", "second_plus_interview")

\* C29 witness: a funnel over a row of round 1 without interview date and a
\* row of round 2 with one: every interview stage counts 1 row of 2, and
\* both pass rates are emitted
C29_Witness ==
    /\ funnel_called
    /\ Len(asked_rows) = 2
    /\ \E i \in 1..2 : /\ asked_rows[i].intv.k = "nan"
                       /\ ~asked_rows[i].cnt.isna /\ asked_rows[i].cnt.v >= 1
    /\ count_in(out.funnel.funnel, "document_pass") = 1
    /\ count_in(out.funnel.funnel, "first_interview") = 1
    /\ count_in(out.funnel.funnel, "second_plus_interview") = 1
    /\ \E j \in 1..Len(out.funnel.conversion_rates) :
          /\ out.funnel.conversion_rates[j].from = "first_interview"
          /\ out.funnel.conversion_rates[j].rate = percent(1, 1)

\* a funnel whose document-pass stage is larger than its first-interview
\* stage, which is larger than its second-plus stage
C29_WitnessStrict ==
    /\ funnel_called
    /\ count_in(out.funnel.funnel, "document_pass")
          > count_in(out.funnel.funnel, "first_interview")
    /\ count_in(out.funnel.funnel, "first_interview")
          > count_in(out.funnel.funnel, "second_plus_interview")

(***************************************************************************)
(* The chat interface                                                      *)
(***************************************************************************)
\* A text is the sequence of its characters.  The characters str.strip()
\* removes: space, newline, tab, and the full-width space U+3000.
whitespace == {" ", "\n", "\t", "U+3000"}

\* str.strip(): the text between its first and its last character that is
\* not whitespace
strip(s) ==
    LET solid == {i \in 1..Len(s) : s[i] \notin whitespace}
    IN  IF solid = {} THEN <<>>
        ELSE SubSeq(s, CHOOSE i \in solid : \A j \in solid : i <= j,
                       CHOOSE i \in solid : \A j \in solid : j <= i)

\* the condition with the strip left out: `if question`
submitted_if_not_empty(question) == question # <<>>

\* app.py 569: `if question and question.strip()`
submitted(question) == question # <<>> /\ strip(question) # <<>>

\* what client.chat.completions.create does: it returns a completion with
\* a content, or raises
completion(content) == [raised |-> FALSE, text |-> content]

failure(e) == [raised |-> TRUE, text |-> e]

\* 'AI分析でエラーが発生しました: ' before str(e)
error_prefix == "AI analysis error: "

\* utils.py query_data_with_ai: the content of the completion, the error
\* text when anything raised
query_data_with_ai(question, response) ==
    IF response.raised THEN <<error_prefix, response.text>>
    ELSE <<"", response.text>>

\* utils.py save_chat_history: the list is created when the key is absent,
\* and one entry is appended
save_chat_history(history, timestamp, question, answer) ==
    [exists |-> TRUE,
     items  |-> Append(history.items,
                       [timestamp |-> timestamp, question |-> question,
                        answer |-> answer])]

\* the AI was not called
NotCalled == [raised |-> "no", rows |-> <<>>, called |-> FALSE, answer |-> <<>>]

\* the number of entries of the history
MaxHistory == 3

\* app.py 567-577: the button 質問する.  The question of the text area, the
\* behaviour of the API and the clock are inputs.
Ask(questions, responses, timestamps) ==
    \E question \in questions, response \in responses, timestamp \in timestamps :
        /\ op' = [name |-> "ask", arg |-> question]
        /\ IF submitted(question)
           THEN /\ Len(chat_history.items) < MaxHistory
                /\ \E answer \in {query_data_with_ai(question, response)} :
                      /\ out' = [raised |-> "no", rows |-> <<>>, called |-> TRUE,
                                 answer |-> answer]
                      /\ chat_history' = save_chat_history(chat_history, timestamp,
                                                           question, answer)
           ELSE /\ out' = NotCalled
                /\ UNCHANGED chat_history
        /\ prev_out' = NoOutcome
        /\ UNCHANGED <<df, df0, selected_companies, selected_months, format_inference>>

\* app.py 579-583: the button 履歴をクリア
ClearHistory ==
    /\ op' = [name |-> "clear", arg |-> <<>>]
    /\ out' = NotCalled
    /\ chat_history' = [exists |-> TRUE, items |-> <<>>]
    /\ prev_out' = NoOutcome
    /\ UNCHANGED <<df, df0, selected_companies, selected_months, format_inference>>

\* the questions of the chat runs: nothing, a space, a newline after a
\* full-width space, a question, a question between spaces
Questions ==
    { <<>>, <<" ">>, <<"U+3000", "\n">>, <<"w", "h", "y">>, <<" ", "w", " ">> }

Responses == { completion("because"), failure("timeout") }

Timestamps == { "10:00:00", "10:00:01" }

\* the chat tab of a session whose analysis has run and whose client exists
InitChat ==
    /\ df0 = Uploaded(<<Row("c1", "Acme", <<Strict(2024, 1, 10), NaN, NaN>>,
                            NumNaN, NumNaN, "open", NaN, NoText)>>, {})
    /\ df = df0
    /\ selected_companies = List(<<ALL>>)
    /\ selected_months = List(<<AllMonths>>)
    /\ op = Idle
    /\ out = NoOutcome
    /\ prev_out = NoOutcome
    /\ format_inference = TRUE
    /\ chat_history = NoHistory

NextChat ==
    \/ Ask(Questions, Responses, Timestamps)
    \/ ClearHistory

SpecChat == InitChat /\ [][NextChat]_vars

(***************************************************************************)
(* Properties of the chat interface                                        *)
(***************************************************************************)
\* a text of whitespace only (the empty text included)
blank(question) == \A i \in 1..Len(question) : question[i] \in whitespace

\* the (question, answer) pairs of a history
pairs(history) ==
    [i \in 1..Len(history.items) |->
        <<history.items[i].question, history.items[i].answer>>]

\* an answer is the content of a completion, or an error text
is_answer(answer) ==
    \E response \in Responses :
        answer = IF response.raised THEN <<error_prefix, response.text>>
                 ELSE <<"", response.text>>

\* C30: every submission of a question that is not blank appends exactly
\* one (question, answer) entry, the answer being the AI's content or the
\* error text; a blank submission calls no AI and appends nothing; a clear
\* empties the history.  Starting from no history, the history is then the
\* entries of the non-blank submissions since the last clear, in order.
C30_HistoryIsTheSubmissions ==
    [][ /\ (op'.name = "ask" /\ ~blank(op'.arg))
            => /\ out'.called
               /\ is_answer(out'.answer)
               /\ pairs(chat_history') =
                     Append(pairs(chat_history), <<op'.arg, out'.answer>>)
        /\ (op'.name = "ask" /\ blank(op'.arg))
            => /\ ~out'.called
               /\ pairs(chat_history') = pairs(chat_history)
        /\ op'.name = "clear" => pairs(chat_history') = <<>>
        /\ op'.name \in {"ask", "clear"} ]_vars

\* the history never holds a blank question, and holds answers only
C30_NoBlankEntry ==
    \A i \in 1..Len(chat_history.items) :
        /\ ~blank(chat_history.items[i].question)
        /\ is_answer(chat_history.items[i].answer)

\* C30 witness: a blank submission after two entries, one of them with the
\* error text as answer, has left the two entries
C30_Witness ==
    /\ op.name = "ask" /\ op.arg # <<>> /\ blank(op.arg)
    /\ ~out.called
    /\ Len(chat_history.items) = 2
    /\ chat_history.items[1].answer[1] = error_prefix
    /\ chat_history.items[2].answer[1] = ""
    /\ chat_history.items[2].question = <<" ", "w", " ">>

\* a history cleared after a submission
C30_WitnessCleared ==
    /\ op.name = "clear"
    /\ chat_history.exists /\ chat_history.items = <<>>

====
